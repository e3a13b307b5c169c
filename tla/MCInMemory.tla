----------------------------- MODULE MCInMemory -----------------------------
(***************************************************************************)
(* A slot with two entries of one identity, a second digest of the same    *)
(* id, and a model that has no handler; and a slot of its own.             *)
(***************************************************************************)
EXTENDS InMemory

Ref(i, d, meta) == [id |-> i, digest |-> d, metadata |-> meta]

MCOffered == [s1 |-> << Ref(1, 1, 1), Ref(1, 1, 2), Ref(1, 2, 1), Ref(2, 3, 1) >>,
              s2 |-> << Ref(1, 1, 3) >>]
MCSlots == DOMAIN MCOffered
MCForeign == {Ref(3, 1, 1)}
=============================================================================
