------------------------------ MODULE MCEngine ------------------------------
(***************************************************************************)
(* An instance of Engine: two models and, with the identity of the first,  *)
(* a third that differs in metadata only; a runtime that keeps its         *)
(* contract for one slot and breaks it for the others.                     *)
(***************************************************************************)
EXTENDS Engine

CONSTANT HonestSlot

MCModels == {[id |-> 1, digest |-> 1, metadata |-> 0],
             [id |-> 1, digest |-> 1, metadata |-> 1],
             [id |-> 2, digest |-> 2, metadata |-> 0]}

\* Everything at once, except that state() tells the truth.
MCFaults ==
  [s \in Slots |-> IF s = HonestSlot THEN {} ELSE AllFaults \ {"stale state"}]
=============================================================================
