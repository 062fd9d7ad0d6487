------------------------- MODULE MCSupervisorLease -------------------------
(***************************************************************************)
(* The instance of SupervisorLease for TLC.  With a timeout of one tick,   *)
(* four ticks let a publication sampled in time be applied when it is      *)
(* overdue for a later sample of the worker.                               *)
(***************************************************************************)
EXTENDS SupervisorLease
============================================================================
