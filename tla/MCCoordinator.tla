--------------------------- MODULE MCCoordinator ---------------------------
(***************************************************************************)
(* Instances of Coordinator for TLC: every song of one key with up to      *)
(* MaxFrames frames at the given times, the ones the compiler refuses      *)
(* included, and every song of two keys on one beat that compiles and      *)
(* starts with a press, of key a unless the names are swapped.             *)
(***************************************************************************)
EXTENDS Coordinator

CONSTANTS a, b, Times, Beat, MaxFrames

Frames(keys, times) ==
    {f \in [at : times, ups : SUBSET keys, downs : SUBSET keys] : f.ups \cup f.downs # {}}

OneKey ==
    UNION {{s \in [1 .. n -> Frames({a}, Times)] : \A i \in 1 .. n - 1 : s[i].at < s[i + 1].at} :
               n \in 1 .. MaxFrames}

TwoKeys ==
    {s \in [1 .. Len(Beat) -> {f \in Frames({a, b}, {0}) : f.ups \cap f.downs = {}}] :
        Compiles(s) /\ s[1].ups = {} /\ a \in s[1].downs}

OnBeat(s) == [i \in DOMAIN s |-> [s[i] EXCEPT !.at = Beat[i]]]

MCSongs == OneKey \cup {OnBeat(s) : s \in TwoKeys}

MCBeat == <<0, 3, 5>>
============================================================================
