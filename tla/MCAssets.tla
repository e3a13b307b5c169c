------------------------------ MODULE MCAssets ------------------------------
(***************************************************************************)
(* Two files on pages of their own and one that shares the first's; a run  *)
(* of assets.py and one of workload.py over the same directory.            *)
(***************************************************************************)
EXTENDS Assets

MCPageOf == [f \in Files |-> IF f = 2 THEN 2 ELSE 1]
=============================================================================
