----------------------------- MODULE ModelRefs -----------------------------
(***************************************************************************)
(* types.py's ModelRef, as every component compares it: a record with an   *)
(* id, a digest and metadata, of which only the first two are identity.    *)
(***************************************************************************)

CONSTANT Nil        \* Python's None

Identity(model) == <<model.id, model.digest>>

\* "left is not None and _identity(left) == _identity(right)"
SameModel(left, right) == left # Nil /\ Identity(left) = Identity(right)
=============================================================================
