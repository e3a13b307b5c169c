---------------------------- MODULE ControlLoop ----------------------------
(***************************************************************************)
(* One slot of TEMMS driven the way the README's applications drive it:    *)
(* context and resources change between reconciliations, and every         *)
(* reconciliation activates what BestFeasibleSelector selects.  Here each  *)
(* reconciliation runs alone and every activation succeeds; Temms.tla has  *)
(* the interleavings and the failures.  What is at stake is what a         *)
(* SEQUENCE of selections does: flapping, dependence on configuration      *)
(* order, keys that come and go.                                           *)
(***************************************************************************)
EXTENDS Selector, SequencesExt

CONSTANTS
  PolicyTables,   \* configured policy sequences
  Inventories,    \* what Runtime.models() may return
  Contexts,       \* contexts an application may pass: functions on keys
  ResourceStates  \* resources a runtime may report: functions on keys

\* What a context or a resource may hold, and what a constraint may expect of it.
IsScalar(x) == x \in [kind : {"num", "str", "nan"}, v : Int]
IsExpected(x) == IsScalar(x) \/ x.kind = "coll"

\* What the selector ranks: priorities are integers, ids and digests places in the
\* lexicographic order.
IsTable(p) ==
  /\ p \in Seq(ToSet(p))
  /\ \A x \in ToSet(p) :
       /\ x.priority \in Int /\ Identity(x.model) \in Nat \X Nat
       /\ \A c \in ToSet(x.constraints) : IsExpected(c.expected)

\* What Runtime.models() returns: models, in some order.
IsInventory(m) == m \in Seq(ToSet(m)) /\ Nil \notin ToSet(m)

ASSUME PolicyTablesAreValid == \A p \in PolicyTables : ValidPolicies(p) /\ IsTable(p)
ASSUME InventoriesAreModels == \A m \in Inventories : IsInventory(m)
ASSUME ValuesAreScalars ==
  \A values \in Contexts \cup ResourceStates : \A k \in DOMAIN values : IsScalar(values[k])

VARIABLES policies, models, context, resources, active
vars == <<policies, models, context, resources, active>>

Decision == Select(policies, models, active, resources, context)

Init ==
  /\ policies \in PolicyTables
  /\ models \in Inventories
  /\ context \in Contexts
  /\ resources \in ResourceStates
  /\ active = Nil

\* The application observes another context.
Observe(c) ==
  /\ context' = c
  /\ UNCHANGED <<policies, models, resources, active>>

UpdateResources(r) ==
  /\ resources' = r
  /\ UNCHANGED <<policies, models, context, active>>

\* A reconciliation nothing interrupts: returns without activating, or
\* activates the selected model.
Reconcile ==
  LET selected == Decision.selected
  IN  /\ active' = IF selected = Nil \/ SameModel(active, selected)
                   THEN active ELSE selected
      /\ UNCHANGED <<policies, models, context, resources>>

Next ==
  \/ \E c \in Contexts : Observe(c)
  \/ \E r \in ResourceStates : UpdateResources(r)
  \/ Reconcile

Spec == Init /\ [][Next]_vars
-----------------------------------------------------------------------------
(***************************************************************************)
(* Properties.                                                             *)
(***************************************************************************)

\* What feasibility means, read off a policy with no evaluation record.
Feasible(p) ==
  /\ \E i \in DOMAIN models : Identity(models[i]) = Identity(p.model)
  /\ \A c \in ToSet(p.constraints) : Satisfied(c, context, resources)

PolicyOf(model) ==
  CHOOSE p \in ToSet(policies) : Identity(p.model) = Identity(model)

\* The selected model is the runtime's own reference to a feasible policy's
\* model, and no feasible policy has a higher priority; nothing is selected
\* only when no policy is feasible (selector.py: evaluation and ranking).
SelectsBestFeasible ==
  LET selected == Decision.selected
  IN  IF selected = Nil
      THEN \A p \in ToSet(policies) : ~Feasible(p)
      ELSE /\ selected \in ToSet(models)
           /\ Feasible(PolicyOf(selected))
           /\ \A p \in ToSet(policies) :
                Feasible(p) => p.priority <= PolicyOf(selected).priority

\* What is compared, and what it is compared with: the expectations of the policies,
\* the values themselves and a container of them all.
Given == {context[k] : k \in DOMAIN context} \cup {resources[k] : k \in DOMAIN resources}
Expected ==
  (UNION {{c.expected : c \in ToSet(p.constraints)} : p \in ToSet(policies)})
  \cup Given \cup {Coll(Given)}

Lawful(a, e) ==
  LET holds(op) == Compare(a, op, e)
      comparable == a.kind = e.kind /\ a.kind \in {"num", "str"}
  IN
  /\ (holds("lt") \/ holds("eq") \/ holds("gt")) <=> comparable
  /\ ~(holds("lt") /\ holds("eq")) /\ ~(holds("lt") /\ holds("gt"))
  /\ ~(holds("eq") /\ holds("gt"))
  /\ holds("ne")  <=> ~holds("eq")
  /\ holds("gte") <=> holds("gt") \/ holds("eq")
  /\ holds("lte") <=> holds("lt") \/ holds("eq")
  /\ holds("lt")  <=> Compare(e, "gt", a)
  /\ holds("gt")  <=> Compare(e, "lt", a)
  /\ (holds("in") \/ holds("not_in")) <=> e.kind = "coll"
  /\ ~(holds("in") /\ holds("not_in"))

\* The operators agree with one another as Python's do, whatever is compared, since
\* thresholds are set on that understanding (selector.py 169-178): of "less",
\* "equal" and "greater" exactly one holds of two numbers or of two strings, and
\* none of a NaN or of values that cannot be ordered, which "at least" and "at most"
\* do not satisfy either and "different" does; the two sides may be exchanged;
\* membership is decided for a container, where a value is found that was put there,
\* and is refused for anything else, strings included.
ComparisonsObeyTheirLaws ==
  /\ \A a \in Given, e \in Expected : Lawful(a, e)
  /\ \A a \in Given : Compare(a, "in", Coll(Given))

\* "Policy order is not a tie-break": neither another order of the policies
\* nor, without duplicate entries, another order of the inventory changes the
\* selection.  The swap of the first two places and the rotation generate
\* every permutation, and every permutation is itself a state.
SwapFirst(s) == IF Len(s) < 2 THEN s ELSE <<s[2], s[1]>> \o SubSeq(s, 3, Len(s))
Rotate(s)    == IF s = <<>> THEN s ELSE Tail(s) \o <<Head(s)>>

OrderIsNoTieBreak ==
  LET selected(p, m) == Select(p, m, active, resources, context).selected
      unique == \A i, j \in DOMAIN models :
                  Identity(models[i]) = Identity(models[j]) => i = j
  IN  /\ selected(SwapFirst(policies), models) = Decision.selected
      /\ selected(Rotate(policies), models) = Decision.selected
      /\ unique => /\ selected(policies, SwapFirst(models)) = Decision.selected
                   /\ selected(policies, Rotate(models)) = Decision.selected

\* A feasible active model is only ever replaced by one of a strictly higher
\* priority: ties keep the current model.
OnlyHigherPriorityDisplaces ==
  [][(/\ active' # active /\ active # Nil
      /\ \E p \in ToSet(policies) : Identity(p.model) = Identity(active)
      /\ Feasible(PolicyOf(active)))
     => PolicyOf(active').priority > PolicyOf(active).priority]_vars

\* Resources decide nothing for policies none of whose constraints reads one.
ResourcesAreNoFallback ==
  (\A p \in ToSet(policies) : \A c \in ToSet(p.constraints) : c.source = "context")
  /\ context' = context /\ active' = active
  => Decision'.selected = Decision.selected

\* Losing a context key can only make policies infeasible, whatever the
\* operator (a missing key does not count as "different" or "not in").
LosingAKeyOnlyExcludes ==
  (DOMAIN context' \subseteq DOMAIN context /\ resources' = resources
   /\ \A k \in DOMAIN context' : context'[k] = context[k])
  => \A p \in ToSet(policies) : Feasible(p)' => Feasible(p)

\* "A missing context key never falls back to a resource key": a step that
\* changes one namespace decides nothing through the other, and one that takes
\* a key away makes no policy feasible.
NamespacesStayApart == [][ResourcesAreNoFallback /\ LosingAKeyOnlyExcludes]_vars
=============================================================================
