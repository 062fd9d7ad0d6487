--------------------------- MODULE AtomicRegister ---------------------------
(***************************************************************************)
(* What the two sequence locks of the dispatch engine promise: a register  *)
(* that one step publishes and one step reads.  SessionTarget (window and  *)
(* generation) and ProgressClock (playback anchor) spread both over many   *)
(* atomic accesses and are shown to implement this specification.          *)
(***************************************************************************)
CONSTANTS
    Values,    \* what may be published
    Initial,   \* the value before the first publication
    NoValue    \* the outcome of a read that failed or has not happened

VARIABLES
    cur,       \* the published value
    got        \* the outcome of the last read

Init == cur = Initial /\ got = NoValue

Publish == /\ cur' \in Values
           /\ UNCHANGED got

\* A read returns the published value or fails.
Read == /\ got' \in {cur, NoValue}
        /\ UNCHANGED cur

Next == Publish \/ Read

Spec == Init /\ [][Next]_<<cur, got>>
=============================================================================
