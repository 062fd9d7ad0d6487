------------------------------ MODULE Schedule ------------------------------
(***************************************************************************)
(* From a song to an admitted schedule: the compiler that pairs every Up   *)
(* with the Down it closes (sky_dispatch_core/src/compile.rs) and the      *)
(* admission that checks hold and release gap, once in microseconds and    *)
(* once in ticks (validation.rs, sky_player/src/engine/session.rs).        *)
(*                                                                         *)
(* A song is a sequence of frames, one per timestamp: the keys released    *)
(* and the keys pressed there.  A generation, one press of one key, is     *)
(* named by the frame and the key of its Down; the compiler numbers them.  *)
(***************************************************************************)
EXTENDS Integers, Sequences

CONSTANTS
    Keys,          \* instrument key slots
    TickNum,       \* QPC ticks per microsecond, TickNum / TickDen
    TickDen,
    HoldUs,        \* min_hold_us
    FrameUs,       \* frame_us, the least gap between a release and the next press
    MarginUs       \* timing_margin_us, which admission adds to the gap

ASSUME RateAssumption == TickNum \in Nat \ {0} /\ TickDen \in Nat \ {0}
ASSUME TimingAssumption == HoldUs \in Nat /\ FrameUs \in Nat /\ MarginUs \in Nat

NoGen == <<>>

\* duration_from_us and timeline_from_us: rounded up.
Ticks(us) == (us * TickNum + TickDen - 1) \div TickDen

Hold == Ticks(HoldUs)
Frame == Ticks(FrameUs)

----------------------------------------------------------------------------
(***************************************************************************)
(* compile_runtime_intents.                                                *)
(***************************************************************************)
\* open_generation_by_slot after the first i frames: Ups close before Downs open.
OpenAfter(song) ==
    LET open[i \in 0 .. Len(song)] ==
            IF i = 0 THEN [k \in Keys |-> NoGen]
            ELSE [k \in Keys |-> CASE k \in song[i].downs -> <<i, k>>
                                   [] k \in song[i].ups \ song[i].downs -> NoGen
                                   [] OTHER -> open[i - 1][k]]
    IN open

\* A Down with the Up of its key at the same timestamp is let through.
Fault_Compiles(song) ==
    LET open == OpenAfter(song) IN
    /\ \A i \in DOMAIN song : \A k \in song[i].downs \ song[i].ups : open[i - 1][k] = NoGen
    /\ \A k \in Keys : open[Len(song)][k] = NoGen

\* A Down on an open key is refused, whether its Up has the same timestamp
\* (MatchedSameTimestampUpDown) or comes later (OverlappingSameKeyDown), and
\* so is a Down that no Up closes (UnclosedGeneration).
Compiles(song) ==
    LET open == OpenAfter(song) IN
    /\ \A i \in DOMAIN song : \A k \in song[i].downs : open[i - 1][k] = NoGen
    /\ \A k \in Keys : open[Len(song)][k] = NoGen

\* The packets: an Up of a key that is not open owns no generation, and its
\* key is not in the packet's Up mask.
Compile(song) ==
    LET open == OpenAfter(song) IN
    [i \in DOMAIN song |->
        [at      |-> Ticks(song[i].at),
         ups     |-> [k \in song[i].ups |-> open[i - 1][k]],
         up_mask |-> {k \in song[i].ups : open[i - 1][k] # NoGen},
         downs   |-> [k \in song[i].downs |-> <<i, k>>]]]

Generations(packets) == UNION {{packets[i].downs[k] : k \in DOMAIN packets[i].downs} : i \in DOMAIN packets}

\* up_intent_locations: the packet of a generation's Up.
UpLocations(packets) ==
    [g \in Generations(packets) |->
        CHOOSE i \in DOMAIN packets :
            g[2] \in DOMAIN packets[i].ups /\ packets[i].ups[g[2]] = g]

----------------------------------------------------------------------------
(***************************************************************************)
(* Admission.                                                              *)
(***************************************************************************)
\* validate_min_hold_and_release_gap_feasibility over the times of frames.
Feasible(packets, at, hold, gap) ==
    LET loc == UpLocations(packets) IN
    \A g \in Generations(packets) :
        /\ at[g[1]] + hold <= at[loc[g]]
        /\ \A h \in Generations(packets) :
               h[2] = g[2] /\ h[1] > loc[g] => at[h[1]] - at[loc[g]] >= gap

FeasibleUs(song) ==
    Feasible(Compile(song), [i \in DOMAIN song |-> song[i].at], HoldUs, FrameUs + MarginUs)

\* Admission in microseconds alone.
Fault_Admits(song) == Compiles(song) /\ FeasibleUs(song)

\* validate_native_schedule_timing_with_release_gap: both domains.
Admits(song) ==
    /\ Compiles(song)
    /\ FeasibleUs(song)
    /\ Feasible(Compile(song), [i \in DOMAIN song |-> Ticks(song[i].at)],
                Hold, Ticks(FrameUs + MarginUs))

----------------------------------------------------------------------------
(***************************************************************************)
(* What pairing means, without the compiler's state.                       *)
(***************************************************************************)
\* Every Down has a later Up of its key, and its key is not pressed again
\* before or with the first of them.
FirstUp(song, i, k) ==
    CHOOSE j \in i + 1 .. Len(song) :
        k \in song[j].ups /\ \A m \in i + 1 .. j - 1 : k \notin song[m].ups

Paired(song) ==
    \A i \in DOMAIN song : \A k \in song[i].downs :
        /\ \E j \in i + 1 .. Len(song) : k \in song[j].ups
        /\ \A m \in i + 1 .. FirstUp(song, i, k) : k \notin song[m].downs

\* CompiledPairs (per song): the compiler takes exactly the songs that pair
\* up, gives every press the first following Up of its key, and puts exactly
\* the Ups that close a press in the masks.
PairsAsAuthored(song) ==
    /\ Compiles(song) = Paired(song)
    /\ Compiles(song) =>
           LET packets == Compile(song)
               loc == UpLocations(packets)
           IN /\ \A j \in DOMAIN song :
                     packets[j].up_mask =
                         {k \in song[j].ups :
                             \E i \in 1 .. j - 1 : k \in song[i].downs /\ FirstUp(song, i, k) = j}
              /\ \A g \in Generations(packets) : loc[g] = FirstUp(song, g[1], g[2])
=============================================================================
