----------------------------- MODULE MCLiveSwap -----------------------------
(***************************************************************************)
(* The four strategies of compare.py, over its whole scenario.             *)
(***************************************************************************)
EXTENDS LiveSwap

MCStrategies == << "fixed-small", "fixed-large", "adaptive", "adaptive-background" >>
=============================================================================
