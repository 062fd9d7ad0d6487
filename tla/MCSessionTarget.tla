-------------------------- MODULE MCSessionTarget --------------------------
(***************************************************************************)
(* Instances of SessionTarget for TLC.  With a last epoch of 5 two         *)
(* publications succeed and the third poisons the epoch; one window and no *)
(* window are enough for a snapshot to be torn.                            *)
(***************************************************************************)
EXTENDS SessionTarget, TLC

\* Threads that call the session are interchangeable.
Symmetry == Permutations(Controllers)
============================================================================
