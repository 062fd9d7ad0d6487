-------------------------- MODULE MCPresentation --------------------------
(***************************************************************************)
(* Instances of Presentation for TLC.  Two snapshots can meet in the slot  *)
(* and in the hub, a capacity of one overflows the queue with the          *)
(* finalization behind a state, and a hub of two events evicts snapshots   *)
(* and overflows with lifecycle events.                                    *)
(***************************************************************************)
EXTENDS Presentation
============================================================================
