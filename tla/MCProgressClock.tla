-------------------------- MODULE MCProgressClock --------------------------
(***************************************************************************)
(* Instances of ProgressClock for TLC.  Two tick values tell two anchors   *)
(* apart in every field; of two publications one may end before a load     *)
(* begins and the other overtake it.                                       *)
(***************************************************************************)
EXTENDS ProgressClock, TLC
============================================================================
