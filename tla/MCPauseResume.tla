--------------------------- MODULE MCPauseResume ---------------------------
(***************************************************************************)
(* Instances of PauseResume for TLC.                                       *)
(***************************************************************************)
EXTENDS PauseResume
============================================================================
