--------------------------- MODULE MCTrackedKeys ---------------------------
(***************************************************************************)
(* Instances of TrackedKeys for TLC.  Two keys are enough for a packet to  *)
(* be inserted in part, for an Up and a Down to share a packet and for a   *)
(* release to resolve one key and keep the other.  The budget of release   *)
(* rounds is the program's four.                                           *)
(***************************************************************************)
EXTENDS TrackedKeys
============================================================================
