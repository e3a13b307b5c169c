--------------------------- MODULE MCControlLoop ---------------------------
(***************************************************************************)
(* An instance of ControlLoop: every permutation of three policies, two of *)
(* whose models share an id, over two priorities and three constraint      *)
(* lists, so that ties, thresholds and missing keys all occur.             *)
(***************************************************************************)
EXTENDS ControlLoop

Ref(i, d)      == [id |-> i, digest |-> d, metadata |-> 0]
Tagged(m, tag) == [m EXCEPT !.metadata = tag]
a0 == Ref(1, 0)
a1 == Ref(1, 1)
b0 == Ref(2, 0)

Req(source, op, expected) ==
  [source |-> source, key |-> "k", operator |-> op, expected |-> expected]

MCConstraintLists ==
  { <<Req("context", "lt", Num(2))>>,
    <<Req("context", "gte", Num(2))>>,
    <<Req("context", "ne", Num(2)), Req("resource", "not_in", Coll({Num(1)}))>> }

Table(ms, prios, cons) ==
  [i \in 1..3 |-> [model |-> Tagged(ms[i], 9), priority |-> prios[i], constraints |-> cons[i]]]

MCPolicyTables ==
  {<<>>} \cup
  { Table(ms, prios, cons) :
      ms \in SetToSeqs({a0, a1, b0}),
      prios \in [1..3 -> {1, 2}],
      cons \in [1..3 -> MCConstraintLists] }

\* A complete inventory, one without a0, and one listing b0 twice.
MCInventories ==
  {<<a0, a1, b0>>, <<b0, a1>>, <<b0, a0, Tagged(b0, 1)>>}

MCContexts ==
  {<<>>} \cup {[k |-> v] : v \in {Num(1), Num(2), Str(1), NaN}}

MCResourceStates == {[k |-> Num(1)], [k |-> Num(3)]}
=============================================================================
