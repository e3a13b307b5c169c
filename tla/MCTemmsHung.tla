---------------------------- MODULE MCTemmsHung ----------------------------
(***************************************************************************)
(* MCTemms where native loads for one slot may never come back.            *)
(***************************************************************************)
EXTENDS MCTemms

CONSTANT HungSlot

\* Threads, loads and runs come to an end, except that a load for HungSlot
\* need not.
HangingSpec ==
  /\ Spec
  /\ EventLoopIsFair
  /\ WF_vars(ThreadTakesWork)
  /\ \A c \in Calls :
       WF_vars((c \in Activations => target[c] # HungSlot) /\ ThreadEnds(c))

\* "Different slots use independent TEMMS locks": with a thread to spare,
\* reconciliations of the other slots end although a load of one slot hangs.
OtherSlotsProgress ==
  \A t \in Reconciles :
    (stage[t] \in {"queued", "activating"} /\ slot[t] # HungSlot) ~> stage[t] = "ended"
=============================================================================
