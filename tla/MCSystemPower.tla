--------------------------- MODULE MCSystemPower ---------------------------
(***************************************************************************)
(* The instance of SystemPower for TLC.  Two callbacks can make each other *)
(* lose both attempts; epochs one to five are two whole sessions and the   *)
(* exhausted counter after them.  One owner is enough for liveness: the    *)
(* safety properties are proved for any number of them.                    *)
(***************************************************************************)
EXTENDS SystemPower
============================================================================
