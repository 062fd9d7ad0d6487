------------------------- MODULE CoordinatorProofs -------------------------
(***************************************************************************)
(* Safety of Coordinator for every song, every set of key slots, every     *)
(* clock rate and every timing: an admitted song never defers a release,   *)
(* the ledger agrees with the keys, keys are spaced by their hold and gap, *)
(* a song that ran to its end accounts for every note, the compiler pairs  *)
(* every press with the Up its author meant, and no check refuses a        *)
(* session that was admitted.                                              *)
(*                                                                         *)
(* The first half argues from which keys a packet names, when it is due    *)
(* and what the coordinator checks before it commits.  The second half     *)
(* is about what the compiler's recursion over the frames computes, by     *)
(* induction over the frames (a set of naturals has a least element), and  *)
(* builds on it: where every generation stands at every packet.            *)
(***************************************************************************)
EXTENDS Coordinator, FiniteSetTheorems, WellFoundedInduction, TLAPS

----------------------------------------------------------------------------
(***************************************************************************)
(* The inductive invariant.                                                *)
(***************************************************************************)
Gens(s) == Generations(Compile(s))
Loc(s) == UpLocations(Compile(s))
Statuses == {"Scheduled", "Active", "Released", "DroppedExpired", "Cancelled"}

\* A packet of the coordinator's copy: only its Ups and their mask change.
PacketFits(p, q) ==
    /\ p = [at |-> q.at, ups |-> p.ups, up_mask |-> p.up_mask, downs |-> q.downs]
    /\ DOMAIN p.ups = DOMAIN q.ups

\* A coordinator of the song s.
Fits(c, s) ==
    /\ c = [packets |-> c.packets, cursor |-> c.cursor, location |-> c.location,
            state |-> c.state, counters |-> c.counters, activated |-> c.activated,
            active |-> c.active, floor |-> c.floor, token |-> c.token]
    /\ c.packets = [i \in DOMAIN s |-> c.packets[i]]
    /\ \A i \in DOMAIN s : PacketFits(c.packets[i], Compile(s)[i])
    /\ c.cursor \in Nat \ {0}
    /\ c.location = UpLocations(Compile(s))
    /\ c.state \in [Gens(s) -> Statuses]
    /\ c.counters \in [released : Int, dropped_expired : Int, cancelled : Int]
    /\ c.activated \in Int
    /\ c.active \in [Keys -> Gens(s) \cup {NoGen}]
    /\ c.floor \in [Keys -> Int]
    /\ c.token \in [Keys -> Gens(s) \cup {NoGen}]

\* The floor of a live generation is its hold after its own Down.
Ledger(c, s) ==
    \A k \in Keys : c.active[k] # NoGen =>
        /\ c.active[k][2] = k
        /\ c.floor[k] = Ticks(s[c.active[k][1]].at) + Hold

\* A frame made from a packet of s.
FrameFits(f, s) ==
    /\ f.packet \in DOMAIN s
    /\ f.at = Ticks(s[f.packet].at)
    /\ f.downs = Compile(s)[f.packet].downs
    /\ DOMAIN f.ups \subseteq Keys
    /\ \A k \in DOMAIN f.ups : f.ups[k] # NoGen

StreamFits(x, s) ==
    /\ x = [entries |-> x.entries, cursor |-> x.cursor]
    /\ x.cursor \in Nat \ {0}
    /\ x.entries \in Seq({x.entries[i] : i \in DOMAIN x.entries})
    /\ \A i \in DOMAIN x.entries : FrameFits(x.entries[i], s)

\* Tokens stand for exactly the generations that are cancelled, one press
\* for every generation that is neither scheduled nor dropped, and only the
\* planner drops.
Tokens(c) == {k \in Keys : c.token[k] # NoGen}

Accounts(c, pr, md) ==
    /\ pr \in [DOMAIN c.state -> Int]
    /\ \A g \in DOMAIN c.state :
           pr[g] = IF c.state[g] \in {"Scheduled", "DroppedExpired"} THEN 0 ELSE 1
    /\ \A g \in DOMAIN c.state : c.state[g] = "Cancelled" => \E k \in Keys : c.token[k] = g
    /\ c.counters.cancelled = Cardinality(Tokens(c))
    /\ c.counters.dropped_expired >= 0
    /\ InState(c, "DroppedExpired") = {} <=> c.counters.dropped_expired = 0
    /\ md = "prepared" => InState(c, "DroppedExpired") = {}

Phases == {"new", "ready", "refused", "simulate", "play", "error", "deferred",
           "finished", "unclean", "stopped"}

\* Only an admitted song is simulated and played.
PhaseOK ==
    /\ song \in Songs
    /\ mode \in {"prepared", "planner"}
    /\ phase \in Phases
    /\ phase \in {"ready", "simulate", "play"} => Admits(song)

LedgerOK == phase \in {"simulate", "play"} => Fits(coordinator, song) /\ Ledger(coordinator, song)

StreamOK ==
    /\ phase \in {"new", "ready"} => stream = Empty
    /\ phase \in {"ready", "simulate", "play"} => StreamFits(stream, song)

ClockRecord == [now : Nat, epoch : Int, paused : Int, focus : BOOLEAN, pauses : Int]
GuardRecord == [up : [Keys -> Int], down : [Keys -> Int], barrier : Int]

TimeTypeOK ==
    /\ clock \in ClockRecord
    /\ guard \in GuardRecord
    /\ since \in [Keys -> Int]
    /\ down \subseteq Keys

\* The guard holds a key for as long as it has to be kept apart.
Guarded(k) ==
    /\ since[k] <= clock.now
    /\ k \in down => since[k] + Hold <= guard.up[k]
    /\ k \notin down => \/ since[k] = Never
                        \/ since[k] + Frame <= guard.down[k]
                        \/ since[k] + Frame <= guard.barrier

TimeOK == TimeTypeOK /\ \A k \in Keys : Guarded(k)

KeysOK ==
    /\ phase \in {"new", "ready", "simulate"} => down = {}
    /\ LedgerMatchesKeys

AccountsOK ==
    /\ phase = "simulate" => presses = [g \in Gens(song) |-> 0]
    /\ phase = "play" => Accounts(coordinator, presses, mode)

Inv ==
    /\ PhaseOK
    /\ LedgerOK
    /\ StreamOK
    /\ TimeOK
    /\ KeysOK
    /\ AccountsOK
    /\ AdmittedNeverDefers
    /\ EveryNoteAccounted

----------------------------------------------------------------------------
(***************************************************************************)
(* Ticks, songs and packets.                                               *)
(***************************************************************************)

\* Rounding up to ticks keeps a time natural (duration_from_us).
LEMMA TicksType == \A n \in Nat : Ticks(n) \in Nat
<1> TAKE n \in Nat
<1>1. n * TickNum \in Nat
  BY RateAssumption
<1>2. (n * TickNum) + TickDen - 1 \in Nat
  BY <1>1, RateAssumption
<1> DEFINE m == (n * TickNum) + TickDen - 1
<1>3. m \in Nat /\ TickDen \in Nat \ {0}
  BY <1>2, RateAssumption
<1> HIDE DEF m
<1>4. m \div TickDen \in Nat
  BY <1>3, SMT
<1> QED
  BY <1>4 DEF Ticks, m

\* Hold and gap are natural, and nothing happened before a session.
LEMMA TimingType ==
    /\ Hold \in Nat /\ Frame \in Nat /\ Never \in Int
    /\ Never + Frame < 0 /\ Never + Hold < 0
<1>1. Hold \in Nat /\ Frame \in Nat
  BY TicksType, TimingAssumption DEF Hold, Frame
<1> QED
  BY <1>1 DEF Never

\* The indices and the elements of a sequence.
LEMMA SequenceType ==
    ASSUME NEW S, NEW s \in Seq(S)
    PROVE  DOMAIN s = 1 .. Len(s) /\ Len(s) \in Nat /\ \A i \in DOMAIN s : s[i] \in S
OBVIOUS

\* The frames of a song (RuntimeIntent's timestamp and keys).
LEMMA SongType ==
    ASSUME NEW s \in Songs
    PROVE  /\ DOMAIN s = 1 .. Len(s) /\ Len(s) \in Nat
           /\ \A i \in DOMAIN s : /\ Ticks(s[i].at) \in Nat
                                  /\ s[i].ups \subseteq Keys /\ s[i].downs \subseteq Keys
<1> DEFINE F == [at : Nat, ups : SUBSET Keys, downs : SUBSET Keys]
<1>1. s \in Seq(F)
  BY SongsAssumption
<1>2. \A f \in F : f.at \in Nat /\ f.ups \subseteq Keys /\ f.downs \subseteq Keys
  OBVIOUS
<1> HIDE DEF F
<1>3. DOMAIN s = 1 .. Len(s) /\ Len(s) \in Nat /\ \A i \in DOMAIN s : s[i] \in F
  BY <1>1, SequenceType
<1> QED
  BY <1>2, <1>3, TicksType

\* What Compile leaves of a frame, whatever the pairing gives its Ups.
LEMMA CompileType ==
    ASSUME NEW s \in Songs
    PROVE  /\ Compile(s) = [i \in DOMAIN s |-> Compile(s)[i]]
           /\ \A i \in DOMAIN s :
                  /\ PacketFits(Compile(s)[i], Compile(s)[i])
                  /\ Compile(s)[i].at = Ticks(s[i].at)
                  /\ DOMAIN Compile(s)[i].ups = s[i].ups
                  /\ Compile(s)[i].downs = [k \in s[i].downs |-> <<i, k>>]
BY DEF Compile, PacketFits

\* Generations are named by the frame and the key of their Down.
LEMMA GensType ==
    ASSUME NEW s \in Songs
    PROVE  /\ \A i \in DOMAIN s : \A k \in s[i].downs : <<i, k>> \in Gens(s)
           /\ \A g \in Gens(s) : /\ g[1] \in DOMAIN s /\ g[2] \in s[g[1]].downs /\ g[2] \in Keys
                                 /\ g = <<g[1], g[2]>>
           /\ NoGen \notin Gens(s)
<1> DEFINE C == Compile(s)
<1>1. DOMAIN C = DOMAIN s /\ \A i \in DOMAIN s : C[i].downs = [k \in s[i].downs |-> <<i, k>>]
  BY CompileType
<1>2. Gens(s) = UNION {{C[i].downs[k] : k \in DOMAIN C[i].downs} : i \in DOMAIN C}
  BY DEF Gens, Generations
<1> HIDE DEF C
<1>3. ASSUME NEW i \in DOMAIN s, NEW k \in s[i].downs PROVE <<i, k>> \in Gens(s)
  <2>1. C[i].downs[k] = <<i, k>> /\ k \in DOMAIN C[i].downs /\ i \in DOMAIN C
    BY <1>1
  <2>2. <<i, k>> \in {C[i].downs[j] : j \in DOMAIN C[i].downs}
    BY <2>1
  <2> QED
    BY <1>2, <2>1, <2>2
<1>4. ASSUME NEW g \in Gens(s)
      PROVE  g[1] \in DOMAIN s /\ g[2] \in s[g[1]].downs /\ g[2] \in Keys /\ g = <<g[1], g[2]>>
  <2>1. PICK i \in DOMAIN C : g \in {C[i].downs[k] : k \in DOMAIN C[i].downs}
    BY <1>2
  <2>2. PICK k \in DOMAIN C[i].downs : g = C[i].downs[k]
    BY <2>1
  <2>3. i \in DOMAIN s /\ k \in s[i].downs /\ g = <<i, k>>
    BY <1>1, <2>1, <2>2
  <2> QED
    BY <2>3, SongType
<1>5. NoGen \notin Gens(s)
  BY <1>4 DEF NoGen
<1> QED
  BY <1>3, <1>4, <1>5

\* A song has finitely many generations.
LEMMA GensFinite ==
    ASSUME NEW s \in Songs
    PROVE  IsFiniteSet(Gens(s))
<1>1. IsFiniteSet(DOMAIN s)
  BY SongType, FS_Interval
<1>2. IsFiniteSet((DOMAIN s) \X Keys)
  BY <1>1, SlotsAssumption, FS_Product
<1>3. \A g \in Gens(s) : g \in (DOMAIN s) \X Keys
  BY GensType
<1>4. Gens(s) \in SUBSET ((DOMAIN s) \X Keys)
  BY <1>3
<1> QED
  BY <1>2, <1>4, FS_Subset

----------------------------------------------------------------------------
(***************************************************************************)
(* What the coordinator's operations leave.                                *)
(***************************************************************************)

\* The image of finitely many keys is finite.
LEMMA ImageFinite ==
    ASSUME NEW S, IsFiniteSet(S), NEW h
    PROVE  IsFiniteSet({h[k] : k \in S})
<1> DEFINE T == {h[k] : k \in S}
           m == [k \in S |-> h[k]]
<1>1. m \in Surjection(S, T)
  BY DEF Surjection
<1> QED
  BY <1>1, FS_Surjection

\* The keys of a set, and the generations they map to, are counted by an integer.
LEMMA KeysCounted ==
    ASSUME NEW S, S \subseteq Keys, NEW h
    PROVE  /\ IsFiniteSet(S) /\ Cardinality(S) \in Nat
           /\ IsFiniteSet({h[k] : k \in S}) /\ Cardinality({h[k] : k \in S}) \in Nat
<1>1. IsFiniteSet(S)
  BY SlotsAssumption, FS_Subset
<1>2. IsFiniteSet({h[k] : k \in S})
  BY <1>1, ImageFinite
<1> QED
  BY <1>1, <1>2, FS_CardinalityType

\* A new coordinator fits its song and has no live generation.
LEMMA NewFits ==
    ASSUME NEW s \in Songs
    PROVE  LET c == NewCoordinator(Compile(s)) IN
           /\ Fits(c, s) /\ Ledger(c, s) /\ Live(c) = {} /\ c.cursor = 1
           /\ c.state = [g \in Gens(s) |-> "Scheduled"]
           /\ c.token = [k \in Keys |-> NoGen]
           /\ c.counters = Zero
<1> DEFINE c == NewCoordinator(Compile(s))
<1>1. /\ c.packets = Compile(s) /\ c.cursor = 1 /\ c.location = UpLocations(Compile(s))
      /\ c.state = [g \in Gens(s) |-> "Scheduled"]
      /\ c.counters = Zero
      /\ c.activated = 0
      /\ c.active = [k \in Keys |-> NoGen]
      /\ c.floor = [k \in Keys |-> 0]
      /\ c.token = [k \in Keys |-> NoGen]
      /\ c = [packets |-> c.packets, cursor |-> c.cursor, location |-> c.location,
              state |-> c.state, counters |-> c.counters, activated |-> c.activated,
              active |-> c.active, floor |-> c.floor, token |-> c.token]
  BY DEF NewCoordinator, Gens
<1> HIDE DEF c
<1>2. Fits(c, s)
  <2>1. c.packets = [i \in DOMAIN s |-> c.packets[i]]
    BY <1>1, CompileType
  <2>2. \A i \in DOMAIN s : PacketFits(c.packets[i], Compile(s)[i])
    BY <1>1, CompileType
  <2>3. c.counters \in [released : Int, dropped_expired : Int, cancelled : Int]
    BY <1>1 DEF Zero
  <2>4. c.state \in [Gens(s) -> Statuses]
    BY <1>1 DEF Statuses
  <2> QED
    BY <1>1, <2>1, <2>2, <2>3, <2>4 DEF Fits
<1>3. Ledger(c, s) /\ Live(c) = {}
  BY <1>1 DEF Ledger, Live
<1> QED
  BY <1>1, <1>2, <1>3 DEF c

\* The shape of the coordinator's packets is the song's.
LEMMA FitsPackets ==
    ASSUME NEW s \in Songs, NEW c, Fits(c, s)
    PROVE  /\ DOMAIN c.packets = DOMAIN s /\ Len(c.packets) = Len(s)
           /\ c.cursor \in Nat \ {0}
           /\ c.cursor <= Len(c.packets) => c.cursor \in DOMAIN s
           /\ \A i \in DOMAIN s : /\ c.packets[i].at = Ticks(s[i].at)
                                  /\ DOMAIN c.packets[i].ups = s[i].ups
                                  /\ c.packets[i].downs = [k \in s[i].downs |-> <<i, k>>]
<1>1. c.packets = [i \in DOMAIN s |-> c.packets[i]]
  BY DEF Fits
<1>2. DOMAIN s = 1 .. Len(s) /\ Len(s) \in Nat
  BY SongType
<1> DEFINE p == c.packets
<1>3. p = [i \in 1 .. Len(s) |-> p[i]]
  BY <1>1, <1>2
<1> HIDE DEF p
<1>4. DOMAIN p = 1 .. Len(s) /\ Len(p) = Len(s)
  BY <1>2, <1>3
<1>5. c.cursor \in Nat \ {0}
  BY DEF Fits
<1>6. ASSUME NEW i \in DOMAIN s
      PROVE  /\ p[i].at = Ticks(s[i].at)
             /\ DOMAIN p[i].ups = s[i].ups
             /\ p[i].downs = [k \in s[i].downs |-> <<i, k>>]
  <2>1. PacketFits(p[i], Compile(s)[i])
    BY DEF Fits, p
  <2>2. p[i].at = Compile(s)[i].at /\ DOMAIN p[i].ups = DOMAIN Compile(s)[i].ups /\ p[i].downs = Compile(s)[i].downs
    BY <2>1 DEF PacketFits
  <2> QED
    BY <2>2, CompileType
<1> QED
  BY <1>2, <1>4, <1>5, <1>6 DEF p

\* A plan is a frame of the packet at the cursor.
LEMMA PrepareFits ==
    ASSUME NEW s \in Songs, NEW c, Fits(c, s), c.cursor \in DOMAIN s
    PROVE  FrameFits(Prepare(c), s) /\ Prepare(c).packet = c.cursor
<1> DEFINE f == Prepare(c)
           p == c.packets[c.cursor]
<1>0. \A i \in DOMAIN s : /\ c.packets[i].at = Ticks(s[i].at)
                          /\ DOMAIN c.packets[i].ups = s[i].ups
                          /\ c.packets[i].downs = [k \in s[i].downs |-> <<i, k>>]
  BY FitsPackets
<1>1. p.at = Ticks(s[c.cursor].at) /\ DOMAIN p.ups = s[c.cursor].ups /\ p.downs = Compile(s)[c.cursor].downs
  BY <1>0, CompileType
<1>2. f.packet = c.cursor /\ f.at = p.at /\ f.downs = p.downs
  BY DEF Prepare
<1>3. DOMAIN f.ups \subseteq DOMAIN p.ups /\ \A k \in DOMAIN f.ups : f.ups[k] # NoGen
  BY DEF Prepare
<1>4. s[c.cursor].ups \subseteq Keys
  BY SongType
<1> HIDE DEF f, p
<1>5. FrameFits(f, s)
  BY <1>1, <1>2, <1>3, <1>4 DEF FrameFits
<1> QED
  BY <1>2, <1>5 DEF f

\* The Downs of a frame are new generations of its packet.
LEMMA FrameDowns ==
    ASSUME NEW s \in Songs, NEW f, FrameFits(f, s)
    PROVE  /\ Ups(f) \subseteq Keys /\ Downs(f) \subseteq Keys
           /\ f.at \in Nat
           /\ \A k \in Downs(f) : /\ f.downs[k] \in Gens(s) /\ f.downs[k] # NoGen
                                  /\ f.downs[k][1] = f.packet /\ f.downs[k][2] = k
           /\ f.at = Ticks(s[f.packet].at)
<1>1. f.packet \in DOMAIN s /\ f.downs = [k \in s[f.packet].downs |-> <<f.packet, k>>]
  BY CompileType DEF FrameFits
<1>2. s[f.packet].downs \subseteq Keys /\ Ticks(s[f.packet].at) \in Nat
  BY <1>1, SongType
<1>3. Downs(f) = s[f.packet].downs /\ \A k \in Downs(f) : f.downs[k] = <<f.packet, k>>
  BY <1>1 DEF Downs
<1>4. \A k \in Downs(f) : f.downs[k] \in Gens(s) /\ f.downs[k] # NoGen
  BY <1>1, <1>3, GensType
<1> QED
  BY <1>2, <1>3, <1>4 DEF FrameFits, Ups

\* A frame presses finitely many generations, all of the song.
LEMMA PressedCounted ==
    ASSUME NEW s \in Songs, NEW f, FrameFits(f, s)
    PROVE  /\ Pressed(f) \subseteq Gens(s) /\ IsFiniteSet(Pressed(f))
           /\ Cardinality(Pressed(f)) \in Nat
           /\ Downs(f) # {} => Cardinality(Pressed(f)) > 0
<1> DEFINE D == Downs(f)
           h == f.downs
<1>1. D \subseteq Keys /\ \A k \in D : h[k] \in Gens(s)
  BY FrameDowns
<1>2. Pressed(f) = {h[k] : k \in D}
  BY DEF Pressed
<1> HIDE DEF D, h
<1>3. IsFiniteSet(Pressed(f)) /\ Cardinality(Pressed(f)) \in Nat
  <2>1. IsFiniteSet({h[k] : k \in D}) /\ Cardinality({h[k] : k \in D}) \in Nat
    BY <1>1, KeysCounted
  <2> QED
    BY <1>2, <2>1
<1>4. D # {} => Cardinality(Pressed(f)) # 0
  BY <1>2, <1>3, FS_EmptySet
<1> QED
  BY <1>1, <1>2, <1>3, <1>4 DEF D

\* The Ups a commit releases, and the ones it reconciles with a token.
LiveUps(c, f) == {k \in Ups(f) : c.active[k] # NoGen}
SpentUps(c, f) == {k \in Ups(f) \ LiveUps(c, f) : c.token[k] = f.ups[k]}
Over(c, f) == {f.ups[k] : k \in LiveUps(c, f) \cup SpentUps(c, f)}

\* What a commit of the Ups changes, and of the Downs, played or dropped.
UpsCommitted(c, f, u, s) ==
    /\ Fits(u, s)
    /\ u.cursor = c.cursor /\ u.packets = c.packets /\ u.activated = c.activated
    /\ u.state = [g \in Gens(s) |-> IF g \in Over(c, f) THEN "Released" ELSE c.state[g]]
    /\ u.counters.released = c.counters.released + Cardinality(Over(c, f))
    /\ u.counters.dropped_expired = c.counters.dropped_expired
    /\ u.counters.cancelled = c.counters.cancelled - Cardinality(SpentUps(c, f))
    /\ u.active = [k \in Keys |-> IF k \in LiveUps(c, f) THEN NoGen ELSE c.active[k]]
    /\ u.floor = [k \in Keys |-> IF k \in LiveUps(c, f) THEN 0 ELSE c.floor[k]]
    /\ u.token = [k \in Keys |-> IF k \in SpentUps(c, f) THEN NoGen ELSE c.token[k]]

DownsCommitted(u, f, n, s) ==
    /\ Fits(n, s)
    /\ n.cursor = u.cursor + 1 /\ n.packets = u.packets
    /\ n.state = [g \in Gens(s) |-> IF g \in Pressed(f) THEN "Active" ELSE u.state[g]]
    /\ n.activated = u.activated + Cardinality(Pressed(f))
    /\ n.counters = u.counters
    /\ n.active = [k \in Keys |-> IF k \in Downs(f) THEN f.downs[k] ELSE u.active[k]]
    /\ n.floor = [k \in Keys |-> IF k \in Downs(f) THEN f.at + Hold ELSE u.floor[k]]
    /\ n.token = u.token

DownsDropped(u, f, n, s) ==
    /\ Fits(n, s)
    /\ n.cursor = u.cursor + 1
    /\ n.packets = [i \in DOMAIN s |-> Withdrawn(u.packets[i], {k \in Downs(f) : Loc(s)[f.downs[k]] = i})]
    /\ n.state = [g \in Gens(s) |-> IF g \in Pressed(f) THEN "DroppedExpired" ELSE u.state[g]]
    /\ n.activated = u.activated
    /\ n.counters.released = u.counters.released
    /\ n.counters.cancelled = u.counters.cancelled
    /\ n.counters.dropped_expired = u.counters.dropped_expired + Cardinality(Pressed(f))
    /\ n.active = u.active /\ n.floor = u.floor /\ n.token = u.token

CursorMoved(u, n, s) ==
    /\ Fits(n, s)
    /\ n.cursor = u.cursor + 1 /\ n.packets = u.packets /\ n.activated = u.activated
    /\ n.state = u.state /\ n.counters = u.counters
    /\ n.active = u.active /\ n.floor = u.floor /\ n.token = u.token

\* commit_prepared_up_intents_frozen field by field: packets, cursor and
\* locations stay, and so does what fits the song.
LEMMA CommitUpsFits ==
    ASSUME NEW s \in Songs, NEW c, NEW f, NEW t, Fits(c, s), FrameFits(f, s)
    PROVE  UpsCommitted(c, f, CommitUps(c, f, t).c, s)
<1> DEFINE u == CommitUps(c, f, t).c
           state == [g \in Gens(s) |-> IF g \in Over(c, f) THEN "Released" ELSE c.state[g]]
           counters == [released |-> c.counters.released + Cardinality(Over(c, f)),
                        dropped_expired |-> c.counters.dropped_expired,
                        cancelled |-> c.counters.cancelled - Cardinality(SpentUps(c, f))]
           active == [k \in Keys |-> IF k \in LiveUps(c, f) THEN NoGen ELSE c.active[k]]
           floor == [k \in Keys |-> IF k \in LiveUps(c, f) THEN 0 ELSE c.floor[k]]
           token == [k \in Keys |-> IF k \in SpentUps(c, f) THEN NoGen ELSE c.token[k]]
           r == [packets |-> c.packets, cursor |-> c.cursor, location |-> c.location,
                 state |-> state, counters |-> counters, activated |-> c.activated,
                 active |-> active, floor |-> floor, token |-> token]
<1>1. /\ c = [packets |-> c.packets, cursor |-> c.cursor, location |-> c.location,
              state |-> c.state, counters |-> c.counters, activated |-> c.activated,
              active |-> c.active, floor |-> c.floor, token |-> c.token]
      /\ DOMAIN c.state = Gens(s)
      /\ c.counters \in [released : Int, dropped_expired : Int, cancelled : Int]
  BY DEF Fits
<1>2. u = r
  BY <1>1 DEF CommitUps, Check, LiveUps, SpentUps, Over
<1>3. state \in [Gens(s) -> Statuses]
  BY DEF Fits, Statuses
<1>4. /\ active \in [Keys -> Gens(s) \cup {NoGen}] /\ floor \in [Keys -> Int]
      /\ token \in [Keys -> Gens(s) \cup {NoGen}]
  BY DEF Fits
<1>5. Cardinality(Over(c, f)) \in Nat /\ Cardinality(SpentUps(c, f)) \in Nat
  <2>1. LiveUps(c, f) \cup SpentUps(c, f) \subseteq Keys /\ SpentUps(c, f) \subseteq Keys
    BY FrameDowns DEF LiveUps, SpentUps
  <2> QED
    BY <2>1, KeysCounted DEF Over
<1>6. counters \in [released : Int, dropped_expired : Int, cancelled : Int]
  BY <1>1, <1>5
<1> HIDE DEF u, state, counters, active, floor, token
<1>7. Fits(u, s)
  BY <1>2, <1>3, <1>4, <1>6 DEF Fits
<1>8. /\ u.cursor = c.cursor /\ u.packets = c.packets /\ u.activated = c.activated
      /\ u.state = state /\ u.counters = counters /\ u.active = active /\ u.floor = floor
      /\ u.token = token
  BY <1>2
<1> QED
  BY <1>7, <1>8 DEF u, state, counters, active, floor, token, UpsCommitted

\* commit_prepared_authored_frame_success_frozen field by field.
LEMMA CommitSuccessFits ==
    ASSUME NEW s \in Songs, NEW c, NEW f, NEW t, Fits(c, s), FrameFits(f, s)
    PROVE  DownsCommitted(CommitUps(c, f, t).c, f, CommitSuccess(c, f, t).c, s)
<1> DEFINE u == CommitUps(c, f, t).c
           n == CommitSuccess(c, f, t).c
           state == [g \in Gens(s) |-> IF g \in Pressed(f) THEN "Active" ELSE u.state[g]]
           active == [k \in Keys |-> IF k \in Downs(f) THEN f.downs[k] ELSE u.active[k]]
           floor == [k \in Keys |-> IF k \in Downs(f) THEN f.at + Hold ELSE u.floor[k]]
           activated == u.activated + Cardinality(Pressed(f))
           r == [packets |-> u.packets, cursor |-> u.cursor + 1, location |-> u.location,
                 state |-> state, counters |-> u.counters, activated |-> activated,
                 active |-> active, floor |-> floor, token |-> u.token]
<1>0. Fits(u, s)
  BY CommitUpsFits DEF UpsCommitted
<1>1. n = [u EXCEPT !.state = [g \in DOMAIN @ |-> IF g \in Pressed(f) THEN "Active" ELSE @[g]],
                    !.activated = @ + Cardinality(Pressed(f)),
                    !.active = [k \in Keys |-> IF k \in Downs(f) THEN f.downs[k] ELSE @[k]],
                    !.floor = [k \in Keys |-> IF k \in Downs(f) THEN f.at + Hold ELSE @[k]],
                    !.cursor = @ + 1]
  BY DEF CommitSuccess, Check
<1> HIDE DEF u, n
<1>2. /\ u = [packets |-> u.packets, cursor |-> u.cursor, location |-> u.location,
              state |-> u.state, counters |-> u.counters, activated |-> u.activated,
              active |-> u.active, floor |-> u.floor, token |-> u.token]
      /\ DOMAIN u.state = Gens(s)
  BY <1>0 DEF Fits
<1>3. n = r
  BY <1>1, <1>2
<1>4. state \in [Gens(s) -> Statuses]
  BY <1>0 DEF Fits, Statuses
<1>5. active \in [Keys -> Gens(s) \cup {NoGen}] /\ floor \in [Keys -> Int]
  BY <1>0, FrameDowns, TimingType DEF Fits
<1>6. activated \in Int
  BY <1>0, PressedCounted DEF Fits
<1> HIDE DEF state, active, floor, activated
<1>7. Fits(n, s)
  BY <1>0, <1>3, <1>4, <1>5, <1>6 DEF Fits
<1>8. /\ n.cursor = u.cursor + 1 /\ n.packets = u.packets /\ n.activated = activated
      /\ n.state = state /\ n.counters = u.counters
      /\ n.active = active /\ n.floor = floor /\ n.token = u.token
  BY <1>3
<1> QED
  BY <1>7, <1>8 DEF u, n, state, active, floor, activated, DownsCommitted

\* Taking Ups out of a packet leaves its time, its Downs and its keys.
LEMMA WithdrawnFits ==
    ASSUME NEW p, NEW q, NEW keys, PacketFits(p, q)
    PROVE  PacketFits(Orphaned(p, keys), q) /\ PacketFits(Withdrawn(p, keys), q)
<1> DEFINE ups == [k \in DOMAIN p.ups |-> IF k \in keys THEN NoGen ELSE p.ups[k]]
<1>1. Orphaned(p, keys) = [at |-> q.at, ups |-> ups, up_mask |-> p.up_mask, downs |-> q.downs]
  BY DEF Orphaned, PacketFits
<1>2. DOMAIN ups = DOMAIN q.ups
  BY DEF PacketFits
<1> HIDE DEF ups
<1>3. Withdrawn(p, keys) = [at |-> q.at, ups |-> ups, up_mask |-> p.up_mask \ keys, downs |-> q.downs]
  BY <1>1 DEF Withdrawn
<1> QED
  BY <1>1, <1>2, <1>3 DEF PacketFits

\* commit_prepared_authored_frame_deadline_miss field by field.
LEMMA CommitMissFits ==
    ASSUME NEW s \in Songs, NEW c, NEW f, NEW t, Fits(c, s), FrameFits(f, s)
    PROVE  DownsDropped(CommitUps(c, f, t).c, f, CommitMiss(c, f, t).c, s)
<1> DEFINE u == CommitUps(c, f, t).c
           n == CommitMiss(c, f, t).c
           state == [g \in Gens(s) |-> IF g \in Pressed(f) THEN "DroppedExpired" ELSE u.state[g]]
           counters == [released |-> u.counters.released,
                        dropped_expired |-> u.counters.dropped_expired + Cardinality(Pressed(f)),
                        cancelled |-> u.counters.cancelled]
           late(i) == {k \in Downs(f) : Loc(s)[f.downs[k]] = i}
           packets == [i \in DOMAIN s |-> Withdrawn(u.packets[i], late(i))]
           r == [packets |-> packets, cursor |-> u.cursor + 1, location |-> u.location,
                 state |-> state, counters |-> counters, activated |-> u.activated,
                 active |-> u.active, floor |-> u.floor, token |-> u.token]
<1>0. Fits(u, s)
  BY CommitUpsFits DEF UpsCommitted
<1>1. n = [u EXCEPT !.state = [g \in DOMAIN @ |-> IF g \in Pressed(f) THEN "DroppedExpired" ELSE @[g]],
                    !.counters.dropped_expired = @ + Cardinality(Pressed(f)),
                    !.packets = [i \in DOMAIN @ |-> Withdrawn(@[i], late(i))],
                    !.cursor = @ + 1]
  <2>1. c.location = Loc(s)
    BY DEF Fits, Loc
  <2> QED
    BY <2>1 DEF CommitMiss, Check
<1> HIDE DEF u, n
<1>2. /\ u = [packets |-> u.packets, cursor |-> u.cursor, location |-> u.location,
              state |-> u.state, counters |-> u.counters, activated |-> u.activated,
              active |-> u.active, floor |-> u.floor, token |-> u.token]
      /\ DOMAIN u.state = Gens(s)
      /\ DOMAIN u.packets = DOMAIN s
      /\ u.counters \in [released : Int, dropped_expired : Int, cancelled : Int]
  BY <1>0, FitsPackets DEF Fits
<1> HIDE DEF late
<1>3. n = r
  BY <1>1, <1>2
<1>4. state \in [Gens(s) -> Statuses]
  BY <1>0 DEF Fits, Statuses
<1>5. counters \in [released : Int, dropped_expired : Int, cancelled : Int]
  BY <1>2, PressedCounted
<1>6. /\ packets = [i \in DOMAIN s |-> packets[i]]
      /\ \A i \in DOMAIN s : PacketFits(packets[i], Compile(s)[i])
  BY <1>0, WithdrawnFits DEF Fits
<1> HIDE DEF state, counters, packets
<1>7. Fits(n, s)
  BY <1>0, <1>3, <1>4, <1>5, <1>6 DEF Fits
<1>8. /\ n.cursor = u.cursor + 1 /\ n.packets = packets /\ n.activated = u.activated
      /\ n.state = state /\ n.counters = counters
      /\ n.active = u.active /\ n.floor = u.floor /\ n.token = u.token
  BY <1>3
<1> QED
  BY <1>7, <1>8 DEF u, n, state, counters, packets, late, DownsDropped

\* Commits that only move the cursor, after the Ups of a metadata packet.
LEMMA CommitMetadataFits ==
    ASSUME NEW s \in Songs, NEW c, NEW f, Fits(c, s), FrameFits(f, s)
    PROVE  CursorMoved(CommitUps(c, f, f.at).c, CommitMetadata(c, f).c, s)
<1> DEFINE u == CommitUps(c, f, f.at).c
           n == CommitMetadata(c, f).c
<1>0. Fits(u, s)
  BY CommitUpsFits DEF UpsCommitted
<1>1. n = [u EXCEPT !.cursor = @ + 1]
  BY DEF CommitMetadata, Check
<1> HIDE DEF u, n
<1>2. n = [packets |-> u.packets, cursor |-> u.cursor + 1, location |-> u.location,
           state |-> u.state, counters |-> u.counters, activated |-> u.activated,
           active |-> u.active, floor |-> u.floor, token |-> u.token]
  <2>1. u = [packets |-> u.packets, cursor |-> u.cursor, location |-> u.location,
           state |-> u.state, counters |-> u.counters, activated |-> u.activated,
           active |-> u.active, floor |-> u.floor, token |-> u.token]
    BY <1>0 DEF Fits
  <2> QED
    BY <1>1, <2>1
<1>3. /\ n.cursor = u.cursor + 1 /\ n.packets = u.packets /\ n.activated = u.activated
      /\ n.state = u.state /\ n.counters = u.counters
      /\ n.active = u.active /\ n.floor = u.floor /\ n.token = u.token
  BY <1>2
<1>4. Fits(n, s)
  BY <1>0, <1>2 DEF Fits
<1> QED
  BY <1>3, <1>4 DEF u, n, CursorMoved

\* A stale packet only moves the cursor (commit_stale_packet).
LEMMA CommitStaleFits ==
    ASSUME NEW s \in Songs, NEW c, Fits(c, s)
    PROVE  CursorMoved(c, CommitStale(c).c, s)
<1> DEFINE n == CommitStale(c).c
<1>1. n = [c EXCEPT !.cursor = @ + 1]
  BY DEF CommitStale, Check
<1> HIDE DEF n
<1>2. n = [packets |-> c.packets, cursor |-> c.cursor + 1, location |-> c.location,
           state |-> c.state, counters |-> c.counters, activated |-> c.activated,
           active |-> c.active, floor |-> c.floor, token |-> c.token]
  <2>1. c = [packets |-> c.packets, cursor |-> c.cursor, location |-> c.location,
           state |-> c.state, counters |-> c.counters, activated |-> c.activated,
           active |-> c.active, floor |-> c.floor, token |-> c.token]
    BY DEF Fits
  <2> QED
    BY <1>1, <2>1
<1>3. /\ n.cursor = c.cursor + 1 /\ n.packets = c.packets /\ n.activated = c.activated
      /\ n.state = c.state /\ n.counters = c.counters
      /\ n.active = c.active /\ n.floor = c.floor /\ n.token = c.token
  BY <1>2
<1>4. Fits(n, s)
  BY <1>2 DEF Fits
<1> QED
  BY <1>3, <1>4 DEF n, CursorMoved

\* What a pause changes.
LiveGens(c) == {c.active[k] : k \in Live(c)}

LiveCancelled(c, n, s) ==
    /\ Fits(n, s)
    /\ n.cursor = c.cursor /\ n.activated = c.activated
    /\ n.packets = [i \in DOMAIN s |-> Orphaned(c.packets[i], {k \in Live(c) : Loc(s)[c.active[k]] = i})]
    /\ n.state = [g \in Gens(s) |-> IF g \in LiveGens(c) THEN "Cancelled" ELSE c.state[g]]
    /\ n.counters.released = c.counters.released
    /\ n.counters.dropped_expired = c.counters.dropped_expired
    /\ n.counters.cancelled = c.counters.cancelled + Cardinality(LiveGens(c))
    /\ n.active = [k \in Keys |-> NoGen]
    /\ n.token = [k \in Keys |-> IF k \in Live(c) THEN c.active[k] ELSE c.token[k]]

\* cancel_live_generations_after_verified_resumable_cleanup field by field.
LEMMA CancelLiveFits ==
    ASSUME NEW s \in Songs, NEW c, Fits(c, s)
    PROVE  LiveCancelled(c, CancelLive(c).c, s)
<1> DEFINE n == CancelLive(c).c
           gone == LiveGens(c)
           state == [g \in Gens(s) |-> IF g \in gone THEN "Cancelled" ELSE c.state[g]]
           counters == [released |-> c.counters.released,
                        dropped_expired |-> c.counters.dropped_expired,
                        cancelled |-> c.counters.cancelled + Cardinality(gone)]
           held(i) == {k \in Live(c) : Loc(s)[c.active[k]] = i}
           packets == [i \in DOMAIN s |-> Orphaned(c.packets[i], held(i))]
           token == [k \in Keys |-> IF k \in Live(c) THEN c.active[k] ELSE c.token[k]]
           r == [packets |-> packets, cursor |-> c.cursor, location |-> c.location,
                 state |-> state, counters |-> counters, activated |-> c.activated,
                 active |-> [k \in Keys |-> NoGen], floor |-> [k \in Keys |-> 0], token |-> token]
<1>1. n = [c EXCEPT !.state = [g \in DOMAIN @ |-> IF g \in gone THEN "Cancelled" ELSE @[g]],
                    !.counters.cancelled = @ + Cardinality(gone),
                    !.packets = [i \in DOMAIN @ |-> Orphaned(@[i], held(i))],
                    !.token = [k \in Keys |-> IF k \in Live(c) THEN c.active[k] ELSE @[k]],
                    !.active = [k \in Keys |-> NoGen],
                    !.floor = [k \in Keys |-> 0]]
  <2>1. c.location = Loc(s)
    BY DEF Fits, Loc
  <2> QED
    BY <2>1 DEF CancelLive, Check, LiveGens
<1>2. /\ c = [packets |-> c.packets, cursor |-> c.cursor, location |-> c.location,
              state |-> c.state, counters |-> c.counters, activated |-> c.activated,
              active |-> c.active, floor |-> c.floor, token |-> c.token]
      /\ DOMAIN c.state = Gens(s)
      /\ DOMAIN c.packets = DOMAIN s
      /\ c.counters \in [released : Int, dropped_expired : Int, cancelled : Int]
  BY FitsPackets DEF Fits
<1> HIDE DEF n, gone, held
<1>3. n = r
  BY <1>1, <1>2
<1>4. state \in [Gens(s) -> Statuses]
  BY DEF Fits, Statuses
<1>5. counters \in [released : Int, dropped_expired : Int, cancelled : Int]
  <2> DEFINE L == Live(c)
             h == c.active
  <2>1. L \subseteq Keys /\ gone = {h[k] : k \in L}
    BY DEF Live, LiveGens, gone
  <2> HIDE DEF L, h
  <2>2. Cardinality({h[k] : k \in L}) \in Nat
    BY <2>1, KeysCounted
  <2> QED
    BY <1>2, <2>1, <2>2
<1>6. /\ packets = [i \in DOMAIN s |-> packets[i]]
      /\ \A i \in DOMAIN s : PacketFits(packets[i], Compile(s)[i])
  BY WithdrawnFits DEF Fits
<1>7. token \in [Keys -> Gens(s) \cup {NoGen}]
  BY DEF Fits, Live
<1> HIDE DEF state, counters, packets, token
<1>8. Fits(n, s)
  BY <1>3, <1>4, <1>5, <1>6, <1>7 DEF Fits
<1>9. /\ n.cursor = c.cursor /\ n.activated = c.activated /\ n.packets = packets
      /\ n.state = state /\ n.counters = counters
      /\ n.active = [k \in Keys |-> NoGen] /\ n.token = token
  BY <1>3
<1> QED
  BY <1>8, <1>9 DEF n, gone, state, counters, token, packets, held, LiveCancelled

\* cancel_all moves no cursor and cancels what is scheduled or active.
LEMMA CancelAllFits ==
    ASSUME NEW s \in Songs, NEW c, Fits(c, s)
    PROVE  /\ CancelAll(c).cursor = c.cursor
           /\ CancelAll(c).state =
                 [g \in Gens(s) |-> IF g \in InState(c, "Scheduled") \cup InState(c, "Active")
                                    THEN "Cancelled" ELSE c.state[g]]
<1>1. /\ c = [packets |-> c.packets, cursor |-> c.cursor, location |-> c.location,
              state |-> c.state, counters |-> c.counters, activated |-> c.activated,
              active |-> c.active, floor |-> c.floor, token |-> c.token]
      /\ DOMAIN c.state = Gens(s)
  BY DEF Fits
<1> DEFINE n == CancelAll(c)
           gone == InState(c, "Scheduled") \cup InState(c, "Active")
           packets == [i \in DOMAIN c.packets |->
                          Withdrawn(c.packets[i], {k \in DOMAIN c.packets[i].ups : c.packets[i].ups[k] \in gone})]
<1>2. n = [c EXCEPT !.state = [g \in DOMAIN @ |-> IF g \in gone THEN "Cancelled" ELSE @[g]],
                    !.counters.cancelled = @ + Cardinality(gone),
                    !.packets = packets,
                    !.active = [k \in Keys |-> NoGen],
                    !.floor = [k \in Keys |-> 0],
                    !.token = [k \in Keys |-> NoGen]]
  BY DEF CancelAll
<1> HIDE DEF n, gone, packets
<1>3. n.cursor = c.cursor /\ n.state = [g \in Gens(s) |-> IF g \in gone THEN "Cancelled" ELSE c.state[g]]
  BY <1>1, <1>2
<1> QED
  BY <1>3 DEF n, gone

----------------------------------------------------------------------------
(***************************************************************************)
(* The ledger, the live keys and the accounts after an operation.          *)
(***************************************************************************)

\* Releasing keeps the floors of what is still live.
LEMMA UpsLedger ==
    ASSUME NEW s \in Songs, NEW c, NEW f, NEW u, Ledger(c, s), UpsCommitted(c, f, u, s)
    PROVE  Ledger(u, s) /\ Live(u) = Live(c) \ Ups(f)
BY DEF Ledger, UpsCommitted, Live, LiveUps

\* A press takes its floor from its own packet.
LEMMA DownsLedger ==
    ASSUME NEW s \in Songs, NEW f, NEW u, NEW n, Ledger(u, s), FrameFits(f, s), DownsCommitted(u, f, n, s)
    PROVE  Ledger(n, s) /\ Live(n) = Live(u) \cup Downs(f)
<1>1. /\ Downs(f) \subseteq Keys /\ f.at = Ticks(s[f.packet].at)
      /\ \A k \in Downs(f) : f.downs[k] # NoGen /\ f.downs[k][1] = f.packet /\ f.downs[k][2] = k
  BY FrameDowns
<1>2. /\ n.active = [k \in Keys |-> IF k \in Downs(f) THEN f.downs[k] ELSE u.active[k]]
      /\ n.floor = [k \in Keys |-> IF k \in Downs(f) THEN f.at + Hold ELSE u.floor[k]]
  BY DEF DownsCommitted
<1>3. ASSUME NEW k \in Keys, n.active[k] # NoGen
      PROVE  n.active[k][2] = k /\ n.floor[k] = Ticks(s[n.active[k][1]].at) + Hold
  <2>1. CASE k \in Downs(f)
    BY <1>1, <1>2, <2>1
  <2>2. CASE k \notin Downs(f)
    <3>1. n.active[k] = u.active[k] /\ n.floor[k] = u.floor[k]
      BY <1>2, <2>2
    <3> QED
      BY <1>3, <3>1 DEF Ledger
  <2> QED
    BY <2>1, <2>2
<1>4. Live(n) = Live(u) \cup Downs(f)
  <2>1. ASSUME NEW k \in Keys
        PROVE  n.active[k] # NoGen <=> u.active[k] # NoGen \/ k \in Downs(f)
    <3>1. CASE k \in Downs(f)
      BY <1>1, <1>2, <3>1
    <3>2. CASE k \notin Downs(f)
      BY <1>2, <3>2
    <3> QED
      BY <3>1, <3>2
  <2> QED
    BY <1>1, <2>1 DEF Live
<1> QED
  BY <1>3, <1>4 DEF Ledger

\* The other operations leave the live generations or clear them all.
LEMMA RestLedger ==
    ASSUME NEW s \in Songs, NEW c, NEW f, NEW n
    PROVE  /\ Ledger(c, s) /\ DownsDropped(c, f, n, s) => Ledger(n, s) /\ Live(n) = Live(c)
           /\ Ledger(c, s) /\ CursorMoved(c, n, s) => Ledger(n, s) /\ Live(n) = Live(c)
           /\ LiveCancelled(c, n, s) => Ledger(n, s) /\ Live(n) = {}
BY DEF Ledger, Live, DownsDropped, CursorMoved, LiveCancelled

\* What releasing checks: a live generation was active, one reconciled was cancelled.
LEMMA UpsChecked ==
    ASSUME NEW s \in Songs, NEW c, NEW f, NEW t, Fits(c, s), FrameFits(f, s), CommitUps(c, f, t).ok
    PROVE  /\ f.packet = c.cursor
           /\ \A k \in LiveUps(c, f) : c.active[k] = f.ups[k] /\ c.state[f.ups[k]] = "Active"
           /\ \A k \in SpentUps(c, f) : c.token[k] = f.ups[k] /\ c.state[f.ups[k]] = "Cancelled"
           /\ \A g \in Over(c, f) : g \in Gens(s) /\ c.state[g] \in {"Active", "Cancelled"}
<1>1. /\ f.packet = c.cursor
      /\ \A k \in LiveUps(c, f) : c.active[k] = f.ups[k] /\ c.state[f.ups[k]] = "Active"
      /\ \A k \in SpentUps(c, f) : c.token[k] = f.ups[k] /\ c.state[f.ups[k]] = "Cancelled"
  BY DEF CommitUps, Check, LiveUps, SpentUps
<1>2. LiveUps(c, f) \subseteq Keys /\ SpentUps(c, f) \subseteq Keys
  BY FrameDowns DEF LiveUps, SpentUps
<1>3. \A k \in LiveUps(c, f) \cup SpentUps(c, f) : f.ups[k] # NoGen
  BY DEF FrameFits, LiveUps, SpentUps, Ups
<1>4. \A k \in LiveUps(c, f) \cup SpentUps(c, f) : f.ups[k] \in Gens(s)
  BY <1>1, <1>2, <1>3 DEF Fits
<1> QED
  BY <1>1, <1>4 DEF Over

\* A commit of the Ups keeps the accounts.
LEMMA UpsAccounts ==
    ASSUME NEW s \in Songs, NEW c, NEW f, NEW t, NEW u, NEW pr, NEW md,
           Fits(c, s), FrameFits(f, s), CommitUps(c, f, t).ok,
           UpsCommitted(c, f, u, s), Accounts(c, pr, md)
    PROVE  Accounts(u, pr, md)
<1>1. /\ DOMAIN c.state = Gens(s) /\ DOMAIN u.state = Gens(s)
      /\ u.state = [g \in Gens(s) |-> IF g \in Over(c, f) THEN "Released" ELSE c.state[g]]
      /\ u.token = [k \in Keys |-> IF k \in SpentUps(c, f) THEN NoGen ELSE c.token[k]]
      /\ u.counters.dropped_expired = c.counters.dropped_expired
      /\ u.counters.cancelled = c.counters.cancelled - Cardinality(SpentUps(c, f))
  BY DEF Fits, UpsCommitted
<1>2. /\ \A k \in SpentUps(c, f) : c.token[k] = f.ups[k]
      /\ \A g \in Over(c, f) : g \in Gens(s) /\ c.state[g] \in {"Active", "Cancelled"}
  BY UpsChecked
<1>3. \A g \in Gens(s) : pr[g] = IF u.state[g] \in {"Scheduled", "DroppedExpired"} THEN 0 ELSE 1
  BY <1>1, <1>2 DEF Accounts
<1>4. ASSUME NEW g \in Gens(s), u.state[g] = "Cancelled"
      PROVE  \E k \in Keys : u.token[k] = g
  <2>1. g \notin Over(c, f) /\ c.state[g] = "Cancelled"
    BY <1>1, <1>4
  <2>2. PICK k \in Keys : c.token[k] = g
    BY <1>1, <2>1 DEF Accounts
  <2>3. k \notin SpentUps(c, f)
    BY <1>2, <2>1, <2>2 DEF Over
  <2> QED
    BY <1>1, <2>2, <2>3
<1>5. u.counters.cancelled = Cardinality(Tokens(u))
  <2>1. Tokens(u) = Tokens(c) \ SpentUps(c, f)
    BY <1>1 DEF Tokens
  <2>2. SpentUps(c, f) \subseteq Tokens(c)
    BY <1>2, FrameDowns DEF SpentUps, Tokens, FrameFits, Ups
  <2>3. IsFiniteSet(Tokens(c))
    BY KeysCounted DEF Tokens
  <2>4. Cardinality(Tokens(u)) = Cardinality(Tokens(c)) - Cardinality(Tokens(c) \cap SpentUps(c, f))
    BY <2>1, <2>3, FS_Difference
  <2>5. Tokens(c) \cap SpentUps(c, f) = SpentUps(c, f)
    BY <2>2
  <2> QED
    BY <1>1, <2>4, <2>5 DEF Accounts
<1>6. InState(u, "DroppedExpired") = InState(c, "DroppedExpired")
  BY <1>1, <1>2 DEF InState
<1> QED
  BY <1>1, <1>3, <1>4, <1>5, <1>6 DEF Accounts

\* A press of scheduled generations is counted once.
LEMMA DownsAccounts ==
    ASSUME NEW s \in Songs, NEW f, NEW u, NEW n, NEW pr, NEW md,
           Fits(u, s), FrameFits(f, s), DownsFree(u, f),
           DownsCommitted(u, f, n, s), Accounts(u, pr, md)
    PROVE  Accounts(n, [g \in DOMAIN pr |-> IF g \in Pressed(f) THEN pr[g] + 1 ELSE pr[g]], md)
<1> DEFINE new == [g \in DOMAIN pr |-> IF g \in Pressed(f) THEN pr[g] + 1 ELSE pr[g]]
<1>1. /\ DOMAIN u.state = Gens(s) /\ DOMAIN n.state = Gens(s)
      /\ n.state = [g \in Gens(s) |-> IF g \in Pressed(f) THEN "Active" ELSE u.state[g]]
      /\ n.token = u.token /\ n.counters = u.counters
  BY DEF Fits, DownsCommitted
<1>2. \A g \in Pressed(f) : g \in Gens(s) /\ u.state[g] = "Scheduled"
  BY FrameDowns DEF DownsFree, Pressed
<1>3. pr \in [Gens(s) -> Int]
  BY <1>1 DEF Accounts
<1>4. new \in [Gens(s) -> Int]
  BY <1>3
<1>5. \A g \in Gens(s) : new[g] = IF n.state[g] \in {"Scheduled", "DroppedExpired"} THEN 0 ELSE 1
  BY <1>1, <1>2, <1>3 DEF Accounts
<1> HIDE DEF new
<1>6. InState(n, "DroppedExpired") = InState(u, "DroppedExpired") /\ Tokens(n) = Tokens(u)
  BY <1>1, <1>2 DEF InState, Tokens
<1>7. \A g \in Gens(s) : n.state[g] = "Cancelled" => \E k \in Keys : n.token[k] = g
  BY <1>1 DEF Accounts
<1>8. Accounts(n, new, md)
  BY <1>1, <1>4, <1>5, <1>6, <1>7 DEF Accounts
<1> QED
  BY <1>8 DEF new

\* A drop of scheduled generations presses nothing and is counted.
LEMMA DropAccounts ==
    ASSUME NEW s \in Songs, NEW f, NEW u, NEW n, NEW pr,
           Fits(u, s), FrameFits(f, s), DownsFree(u, f), Downs(f) # {},
           DownsDropped(u, f, n, s), Accounts(u, pr, "planner")
    PROVE  Accounts(n, pr, "planner")
<1>1. /\ DOMAIN u.state = Gens(s) /\ DOMAIN n.state = Gens(s)
      /\ n.state = [g \in Gens(s) |-> IF g \in Pressed(f) THEN "DroppedExpired" ELSE u.state[g]]
      /\ n.token = u.token /\ n.counters.cancelled = u.counters.cancelled
      /\ n.counters.dropped_expired = u.counters.dropped_expired + Cardinality(Pressed(f))
      /\ u.counters.dropped_expired \in Int
  BY DEF Fits, DownsDropped
<1>2. \A g \in Pressed(f) : g \in Gens(s) /\ u.state[g] = "Scheduled"
  BY FrameDowns DEF DownsFree, Pressed
<1>3. pr \in [Gens(s) -> Int]
  BY <1>1 DEF Accounts
<1>4. \A g \in Gens(s) : pr[g] = IF n.state[g] \in {"Scheduled", "DroppedExpired"} THEN 0 ELSE 1
  BY <1>1, <1>2, <1>3 DEF Accounts
<1>5. Cardinality(Pressed(f)) \in Nat /\ Cardinality(Pressed(f)) > 0
  BY PressedCounted
<1>6. n.counters.dropped_expired >= 0 /\ n.counters.dropped_expired # 0
  BY <1>1, <1>5 DEF Accounts
<1>7. InState(n, "DroppedExpired") # {}
  <2>1. PICK k \in Downs(f) : TRUE
    OBVIOUS
  <2>2. f.downs[k] \in Pressed(f)
    BY DEF Pressed
  <2> QED
    BY <1>1, <1>2, <2>2 DEF InState
<1>8. \A g \in Gens(s) : n.state[g] = "Cancelled" => \E k \in Keys : n.token[k] = g
  BY <1>1 DEF Accounts
<1>9. n.counters.cancelled = Cardinality(Tokens(n))
  <2>1. Tokens(n) = Tokens(u)
    BY <1>1 DEF Tokens
  <2> QED
    BY <1>1, <2>1 DEF Accounts
<1> QED
  BY <1>1, <1>3, <1>4, <1>6, <1>7, <1>8, <1>9 DEF Accounts

\* A move of the cursor changes no account.
LEMMA CursorAccounts ==
    ASSUME NEW s \in Songs, NEW u, NEW n, NEW pr, NEW md, CursorMoved(u, n, s), Accounts(u, pr, md)
    PROVE  Accounts(n, pr, md)
BY DEF CursorMoved, Accounts, InState, Tokens

\* Live slots hold different generations.
LEMMA LiveCounted ==
    ASSUME NEW s \in Songs, NEW c, Fits(c, s), Ledger(c, s)
    PROVE  Cardinality(LiveGens(c)) = Cardinality(Live(c))
<1> DEFINE L == Live(c)
           T == LiveGens(c)
           m == [k \in L |-> c.active[k]]
<1>1. L \subseteq Keys /\ T = {m[k] : k \in L} /\ \A k \in L : m[k][2] = k
  BY DEF Live, LiveGens, Ledger
<1>2. m \in [L -> T]
  BY DEF LiveGens
<1> HIDE DEF L, T, m
<1>3. m \in Bijection(L, T)
  BY <1>1, <1>2 DEF Bijection, Injection, Surjection, IsInjective
<1>4. IsFiniteSet(L)
  BY <1>1, KeysCounted
<1> QED
  BY <1>3, <1>4, FS_Bijection DEF ExistsBijection, L, T

\* A pause gives every live generation a token, and no two the same.
LEMMA CancelAccounts ==
    ASSUME NEW s \in Songs, NEW c, NEW n, NEW pr, NEW md, Fits(c, s), Ledger(c, s),
           LocallyConsistent(c), LiveCancelled(c, n, s), Accounts(c, pr, md)
    PROVE  Accounts(n, pr, md)
<1>1. /\ DOMAIN c.state = Gens(s) /\ DOMAIN n.state = Gens(s)
      /\ n.state = [g \in Gens(s) |-> IF g \in LiveGens(c) THEN "Cancelled" ELSE c.state[g]]
      /\ n.token = [k \in Keys |-> IF k \in Live(c) THEN c.active[k] ELSE c.token[k]]
      /\ n.counters.dropped_expired = c.counters.dropped_expired
      /\ n.counters.cancelled = c.counters.cancelled + Cardinality(LiveGens(c))
      /\ Live(c) \subseteq Keys
  BY DEF Fits, LiveCancelled, Live
<1>2. \A k \in Live(c) : c.token[k] = NoGen /\ c.state[c.active[k]] = "Active" /\ c.active[k] # NoGen
  BY DEF LocallyConsistent, Live
<1>3. \A g \in LiveGens(c) : c.state[g] = "Active" /\ \E k \in Live(c) : c.active[k] = g
  BY <1>2 DEF LiveGens
<1>4. \A g \in Gens(s) : pr[g] = IF n.state[g] \in {"Scheduled", "DroppedExpired"} THEN 0 ELSE 1
  BY <1>1, <1>3 DEF Accounts
<1>5. ASSUME NEW g \in Gens(s), n.state[g] = "Cancelled"
      PROVE  \E k \in Keys : n.token[k] = g
  <2>1. CASE g \in LiveGens(c)
    BY <1>1, <1>3, <2>1
  <2>2. CASE g \notin LiveGens(c)
    <3>1. PICK k \in Keys : c.token[k] = g
      BY <1>1, <1>5, <2>2 DEF Accounts
    <3>2. k \notin Live(c)
      BY <1>2, <3>1, GensType
    <3> QED
      BY <1>1, <3>1, <3>2
  <2> QED
    BY <2>1, <2>2
<1>6. n.counters.cancelled = Cardinality(Tokens(n))
  <2>1. Tokens(n) = Tokens(c) \cup Live(c) /\ Tokens(c) \cap Live(c) = {}
    BY <1>1, <1>2 DEF Tokens
  <2>2. IsFiniteSet(Tokens(c)) /\ IsFiniteSet(Live(c))
    BY KeysCounted DEF Tokens, Live
  <2>3. Cardinality(Tokens(n)) = Cardinality(Tokens(c)) + Cardinality(Live(c)) - Cardinality({})
    BY <2>1, <2>2, FS_Union
  <2>4. Cardinality(Tokens(c)) \in Nat /\ Cardinality(Live(c)) \in Nat /\ Cardinality({}) = 0
    BY <2>2, FS_CardinalityType, FS_EmptySet
  <2> QED
    BY <1>1, <2>3, <2>4, LiveCounted DEF Accounts
<1>7. InState(n, "DroppedExpired") = InState(c, "DroppedExpired")
  BY <1>1, <1>3 DEF InState
<1> QED
  BY <1>1, <1>4, <1>5, <1>6, <1>7 DEF Accounts

----------------------------------------------------------------------------
(***************************************************************************)
(* Time.                                                                   *)
(***************************************************************************)

\* Time passes and the floors stand.
LEMMA ClockTime ==
    ASSUME TimeOK, clock' \in ClockRecord, clock'.now >= clock.now, UNCHANGED <<guard, down, since>>
    PROVE  TimeOK'
<1>1. TimeTypeOK'
  BY DEF TimeOK, TimeTypeOK
<1>2. ASSUME NEW k \in Keys PROVE Guarded(k)'
  <2>1. Guarded(k) /\ clock \in ClockRecord /\ since[k] \in Int
    BY DEF TimeOK, TimeTypeOK
  <2>2. clock.now \in Int /\ clock'.now \in Int
    BY <2>1 DEF ClockRecord
  <2> QED
    BY <2>1, <2>2 DEF Guarded
<1> QED
  BY <1>1, <1>2 DEF TimeOK

\* A packet moves the floors of exactly the keys it moves.
LEMMA SendTime ==
    ASSUME TimeOK, NEW f, NEW ups, NEW downs, ups \subseteq Keys, downs \subseteq Keys,
           NEW done \in Completions, Send(f, ups, downs, done)
    PROVE  TimeOK'
<1>1. /\ clock \in ClockRecord /\ guard \in GuardRecord /\ since \in [Keys -> Int] /\ down \subseteq Keys
      /\ \A k \in Keys : Guarded(k)
  BY DEF TimeOK, TimeTypeOK
<1>2. clock.now \in Nat /\ done \in Nat /\ done >= clock.now
  BY <1>1, PlayBounds DEF ClockRecord, Completions
<1> DEFINE gu == [k \in Keys |-> IF k \in downs THEN done + Hold ELSE IF k \in ups THEN Never ELSE guard.up[k]]
           gd == [k \in Keys |-> IF k \in downs THEN Never ELSE IF k \in ups THEN done + Frame ELSE guard.down[k]]
<1>3. guard.up \in [Keys -> Int] /\ guard.down \in [Keys -> Int] /\ guard.barrier \in Int
  BY <1>1 DEF GuardRecord
<1>4. gu \in [Keys -> Int] /\ gd \in [Keys -> Int]
  BY <1>2, <1>3, TimingType
<1>5. guard' = [guard EXCEPT !.up = gu, !.down = gd]
  BY <1>1 DEF Send, observe, GuardRecord
<1>6. \A k \in Keys : /\ gu[k] = IF k \in downs THEN done + Hold ELSE IF k \in ups THEN Never ELSE guard.up[k]
                      /\ gd[k] = IF k \in downs THEN Never ELSE IF k \in ups THEN done + Frame ELSE guard.down[k]
  OBVIOUS
<1> HIDE DEF gu, gd
<1>7. guard'.up = gu /\ guard'.down = gd /\ guard'.barrier = guard.barrier /\ guard' \in GuardRecord
  BY <1>1, <1>4, <1>5 DEF GuardRecord
<1>8. clock' \in ClockRecord /\ clock'.now = done
  BY <1>1, <1>2 DEF Send, ClockRecord
<1>9. since' = [k \in Keys |-> IF k \in downs \cup (ups \cap down) THEN done ELSE since[k]]
  BY DEF Send
<1>10. down' = (down \ ups) \cup downs
  BY DEF Send
<1>11. since' \in [Keys -> Int]
  BY <1>1, <1>2, <1>9
<1>12. TimeTypeOK'
  BY <1>1, <1>7, <1>8, <1>10, <1>11 DEF TimeTypeOK
<1>13. ASSUME NEW k \in Keys PROVE Guarded(k)'
  <2>1. /\ since[k] \in Int /\ guard.up[k] \in Int /\ guard.down[k] \in Int /\ guard.barrier \in Int
        /\ Hold \in Nat /\ Frame \in Nat /\ Never \in Int
    BY <1>1, <1>3, TimingType
  <2>2. /\ since[k] <= clock.now
        /\ k \in down => since[k] + Hold <= guard.up[k]
        /\ k \notin down => \/ since[k] = Never
                            \/ since[k] + Frame <= guard.down[k]
                            \/ since[k] + Frame <= guard.barrier
    BY <1>1 DEF Guarded
  <2>3. CASE k \in downs
    <3>1. since'[k] = done /\ guard'.up[k] = done + Hold /\ k \in down'
      BY <1>6, <1>7, <1>9, <1>10, <2>3
    <3> QED
      BY <1>2, <1>8, <2>1, <3>1 DEF Guarded
  <2>4. CASE k \notin downs /\ k \in ups
    <3>1. k \notin down' /\ guard'.down[k] = done + Frame
      BY <1>6, <1>7, <1>10, <2>4
    <3>2. since'[k] = IF k \in down THEN done ELSE since[k]
      BY <1>9, <2>4
    <3> QED
      BY <1>2, <1>8, <2>1, <2>2, <3>1, <3>2 DEF Guarded
  <2>5. CASE k \notin downs /\ k \notin ups
    <3>1. since'[k] = since[k] /\ guard'.up[k] = guard.up[k] /\ guard'.down[k] = guard.down[k]
      BY <1>6, <1>7, <1>9, <2>5
    <3>2. k \in down' <=> k \in down
      BY <1>10, <2>5
    <3> QED
      BY <1>2, <1>7, <1>8, <2>1, <2>2, <3>1, <3>2 DEF Guarded
  <2> QED
    BY <2>3, <2>4, <2>5
<1> QED
  BY <1>12, <1>13 DEF TimeOK

\* A pause and a resume keep the time.
LEMMA PausesClock ==
    ASSUME clock \in ClockRecord
    PROVE  /\ \A b \in BOOLEAN : Pauses(b) => clock' \in ClockRecord /\ clock'.now = clock.now
                                              /\ clock'.now >= clock.now
           /\ Resumes => clock' \in ClockRecord /\ clock'.now = clock.now /\ clock'.now >= clock.now
<1>1. /\ clock = [now |-> clock.now, epoch |-> clock.epoch, paused |-> clock.paused,
                  focus |-> clock.focus, pauses |-> clock.pauses]
      /\ clock.now \in Nat /\ clock.epoch \in Int /\ clock.paused \in Int /\ clock.pauses \in Int
      /\ clock.now >= clock.now
  BY DEF ClockRecord
<1>2. ASSUME NEW b \in BOOLEAN, NEW e \in Int, NEW p \in Int, NEW m \in Int
      PROVE  [now |-> clock.now, epoch |-> e, paused |-> p, focus |-> b, pauses |-> m] \in ClockRecord
  BY <1>1 DEF ClockRecord
<1>3. ASSUME NEW b \in BOOLEAN, Pauses(b)
      PROVE  clock' \in ClockRecord /\ clock'.now = clock.now
  <2>1. clock' = [now |-> clock.now, epoch |-> clock.epoch, paused |-> clock.now,
                  focus |-> b, pauses |-> clock.pauses + 1]
    BY <1>1, <1>3 DEF Pauses
  <2>2. clock.pauses + 1 \in Int /\ clock.now \in Int
    BY <1>1
  <2> QED
    BY <1>1, <1>2, <2>1, <2>2
<1>4. ASSUME Resumes
      PROVE  clock' \in ClockRecord /\ clock'.now = clock.now
  <2>1. clock' = [now |-> clock.now, epoch |-> clock.epoch + clock.now - clock.paused, paused |-> Never,
                  focus |-> FALSE, pauses |-> clock.pauses]
    BY <1>1, <1>4 DEF Resumes
  <2>2. clock.epoch + clock.now - clock.paused \in Int /\ Never \in Int
    BY <1>1, TimingType
  <2> QED
    BY <1>1, <1>2, <2>1, <2>2
<1> QED
  BY <1>1, <1>3, <1>4

\* A pause releases every key and holds every press back by a frame.
LEMMA SuspendTime ==
    ASSUME TimeOK, suspend_live_input, clock' \in ClockRecord, clock'.now = clock.now
    PROVE  TimeOK'
<1>1. /\ clock \in ClockRecord /\ since \in [Keys -> Int]
      /\ \A k \in Keys : since[k] <= clock.now
  BY DEF TimeOK, TimeTypeOK, Guarded
<1>2. clock.now \in Nat /\ Frame \in Nat /\ Never \in Int
  BY <1>1, TimingType DEF ClockRecord
<1>3. /\ down' = {}
      /\ since' = [k \in Keys |-> IF k \in down THEN clock.now ELSE since[k]]
      /\ guard' = [Open EXCEPT !.barrier = clock.now + Frame]
  BY DEF suspend_live_input, barrier
<1>4. guard' \in GuardRecord /\ guard'.barrier = clock.now + Frame
  BY <1>2, <1>3 DEF Open, GuardRecord
<1>5. since' \in [Keys -> Int] /\ \A k \in Keys : since'[k] <= clock.now
  BY <1>1, <1>2, <1>3
<1>6. TimeTypeOK'
  BY <1>3, <1>4, <1>5 DEF TimeTypeOK
<1>7. ASSUME NEW k \in Keys PROVE Guarded(k)'
  <2>1. since'[k] \in Int /\ since'[k] <= clock.now
    BY <1>5
  <2>2. since'[k] + Frame <= guard'.barrier
    BY <1>2, <1>4, <2>1
  <2> QED
    BY <1>3, <2>1, <2>2 DEF Guarded
<1> QED
  BY <1>6, <1>7 DEF TimeOK

\* Before the first packet and after the last, no key is held back.
LEMMA OpenTime ==
    /\ Midnight \in ClockRecord /\ Midnight.now = 0 /\ Open \in GuardRecord
    /\ [k \in Keys |-> Never] \in [Keys -> Int]
<1>1. PreRoll \in Nat
  BY PlayBounds
<1> QED
  BY <1>1, TimingType DEF Midnight, ClockRecord, Open, GuardRecord

\* At the start.
LEMMA FreshTime ==
    ASSUME clock = Midnight, guard = Open, since = [k \in Keys |-> Never], down = {}
    PROVE  TimeOK
<1>1. TimeTypeOK
  BY OpenTime DEF TimeTypeOK
<1>2. \A k \in Keys : since[k] = Never
  OBVIOUS
<1>3. Never <= 0
  BY TimingType
<1>4. ASSUME NEW k \in Keys PROVE Guarded(k)
  BY <1>2, <1>3, OpenTime DEF Guarded
<1> QED
  BY <1>1, <1>4 DEF TimeOK

\* After the cleanup.
LEMMA CleanedTime ==
    ASSUME clock' = Midnight, guard' = Open, since' = [k \in Keys |-> Never], down' = {}
    PROVE  TimeOK'
<1>1. TimeTypeOK'
  BY OpenTime DEF TimeTypeOK
<1>2. \A k \in Keys : since'[k] = Never
  OBVIOUS
<1>3. Never <= 0
  BY TimingType
<1>4. ASSUME NEW k \in Keys PROVE Guarded(k)'
  BY <1>2, <1>3, OpenTime DEF Guarded
<1> QED
  BY <1>1, <1>4 DEF TimeOK

----------------------------------------------------------------------------
(***************************************************************************)
(* The stream and the frame to play.                                       *)
(***************************************************************************)

\* A sequence is one over the set of its own elements.
LEMMA OwnElements ==
    ASSUME NEW S, NEW e \in Seq(S)
    PROVE  e \in Seq({e[i] : i \in DOMAIN e})
<1>1. DOMAIN e = 1 .. Len(e) /\ Len(e) \in Nat
  BY SequenceType
<1> DEFINE T == {e[i] : i \in DOMAIN e}
<1>2. e = [i \in 1 .. Len(e) |-> e[i]]
  OBVIOUS
<1>3. \A i \in 1 .. Len(e) : e[i] \in T
  BY <1>1
<1> HIDE DEF T
<1>4. [i \in 1 .. Len(e) |-> e[i]] \in Seq(T)
  BY <1>1, <1>3
<1> QED
  BY <1>2, <1>4 DEF T

\* Freezing a frame appends it (PreparedDispatchStream).
LEMMA StreamAppend ==
    ASSUME NEW s, NEW x, NEW f, StreamFits(x, s), FrameFits(f, s)
    PROVE  StreamFits([x EXCEPT !.entries = Append(@, f)], s)
<1> DEFINE e == x.entries
           T == {e[i] : i \in DOMAIN e} \cup {f}
           y == [x EXCEPT !.entries = Append(@, f)]
<1>1. x = [entries |-> e, cursor |-> x.cursor] /\ x.cursor \in Nat \ {0}
  BY DEF StreamFits
<1>2. y.entries = Append(e, f) /\ y.cursor = x.cursor /\ y = [entries |-> y.entries, cursor |-> y.cursor]
  BY <1>1
<1>3. e \in Seq({e[i] : i \in DOMAIN e}) /\ \A i \in DOMAIN e : FrameFits(e[i], s)
  BY DEF StreamFits
<1>4. {e[i] : i \in DOMAIN e} \subseteq T /\ f \in T
  OBVIOUS
<1>5. \A g \in T : FrameFits(g, s)
  BY <1>3
<1> HIDE DEF e, T, y
<1>6. e \in Seq(T)
  BY <1>3, <1>4
<1>7. Append(e, f) \in Seq(T)
  BY <1>4, <1>6
<1>8. \A i \in DOMAIN y.entries : y.entries[i] \in T
  BY <1>2, <1>7, SequenceType
<1>9. y.entries \in Seq({y.entries[i] : i \in DOMAIN y.entries})
  BY <1>2, <1>7, OwnElements
<1>10. StreamFits(y, s)
  BY <1>1, <1>2, <1>5, <1>8, <1>9 DEF StreamFits
<1> QED
  BY <1>10 DEF y

\* Advancing the stream keeps its entries.
LEMMA StreamAdvance ==
    ASSUME NEW s, NEW x, StreamFits(x, s)
    PROVE  StreamFits([x EXCEPT !.cursor = @ + 1], s)
<1> DEFINE y == [x EXCEPT !.cursor = @ + 1]
<1>1. x = [entries |-> x.entries, cursor |-> x.cursor] /\ x.cursor \in Nat \ {0}
  BY DEF StreamFits
<1>2. y.entries = x.entries /\ y.cursor = x.cursor + 1 /\ y = [entries |-> y.entries, cursor |-> y.cursor]
  BY <1>1
<1> HIDE DEF y
<1>3. StreamFits(y, s)
  BY <1>1, <1>2 DEF StreamFits
<1> QED
  BY <1>3 DEF y

\* What is played is a frame of the song, from the stream or from the plan.
LEMMA CurrentFits ==
    ASSUME Inv, phase = "play", HasCurrent
    PROVE  FrameFits(Current, song)
<1>1. song \in Songs /\ mode \in {"prepared", "planner"} /\ Fits(coordinator, song) /\ StreamFits(stream, song)
  BY DEF Inv, PhaseOK, LedgerOK, StreamOK
<1>2. CASE mode = "prepared"
  <2> DEFINE e == stream.entries
  <2>1. stream.cursor \in Nat \ {0} /\ e \in Seq({e[i] : i \in DOMAIN e})
    BY <1>1 DEF StreamFits
  <2>2. stream.cursor <= Len(e)
    BY <1>2 DEF HasCurrent
  <2>3. DOMAIN e = 1 .. Len(e) /\ Len(e) \in Nat
    BY <2>1, SequenceType
  <2>4. stream.cursor \in DOMAIN e
    BY <2>1, <2>2, <2>3
  <2>5. FrameFits(e[stream.cursor], song)
    BY <1>1, <2>4 DEF StreamFits
  <2> QED
    BY <1>2, <2>5 DEF Current
<1>3. CASE mode = "planner"
  <2>1. coordinator.cursor <= Len(coordinator.packets) /\ Current = Prepare(coordinator)
    BY <1>3 DEF HasCurrent, Current
  <2>2. coordinator.cursor \in DOMAIN song
    BY <1>1, <2>1, FitsPackets
  <2> QED
    BY <1>1, <2>1, <2>2, PrepareFits
<1> QED
  BY <1>1, <1>2, <1>3

\* An admitted song never has a release before its floor: the plan of a
\* live generation's Up is at least a hold after its Down
\* (validate_min_hold_and_release_gap_feasibility_ticks).
LEMMA NoDeferral ==
    ASSUME NEW s \in Songs, NEW c, Fits(c, s), Ledger(c, s), Admits(s), c.cursor \in DOMAIN s
    PROVE  Outcome(Prepare(c)) # "deferred"
<1> DEFINE f == Prepare(c)
           p == c.packets[c.cursor]
           owned == {k \in DOMAIN p.ups : p.ups[k] # NoGen}
<1>1. SUFFICES ASSUME f.ok, NEW k \in f.deferred PROVE FALSE
  BY DEF Outcome
<1>2. k \in owned /\ c.floor[k] > p.at /\ c.active[k] = p.ups[k] /\ c.location[p.ups[k]] = c.cursor
  BY <1>1 DEF Prepare
<1>3. p.ups[k] # NoGen /\ k \in DOMAIN p.ups
  BY <1>2
<1> DEFINE g == p.ups[k]
<1>4. p.at = Ticks(s[c.cursor].at) /\ DOMAIN p.ups = s[c.cursor].ups
  <2>1. \A i \in DOMAIN s : /\ c.packets[i].at = Ticks(s[i].at)
                            /\ DOMAIN c.packets[i].ups = s[i].ups
                            /\ c.packets[i].downs = [j \in s[i].downs |-> <<i, j>>]
    BY FitsPackets
  <2> QED
    BY <2>1
<1>5. k \in Keys
  BY <1>3, <1>4, SongType
<1>6. c.active[k] = g /\ g # NoGen /\ c.location = UpLocations(Compile(s)) /\ g \in Gens(s)
  BY <1>2, <1>3, <1>5 DEF Fits
<1> HIDE DEF f, p, owned, g
<1>7. c.floor[k] = Ticks(s[g[1]].at) + Hold
  BY <1>5, <1>6 DEF Ledger
<1> DEFINE at == [i \in DOMAIN s |-> Ticks(s[i].at)]
           loc == UpLocations(Compile(s))
<1>8. at[g[1]] + Hold <= at[loc[g]]
  <2>1. \A h \in Generations(Compile(s)) : at[h[1]] + Hold <= at[loc[h]]
    BY DEF Admits, Feasible
  <2> QED
    BY <1>6, <2>1 DEF Gens
<1>9. loc[g] = c.cursor
  BY <1>2, <1>6 DEF g
<1>10. g[1] \in DOMAIN s /\ Ticks(s[g[1]].at) \in Nat /\ Ticks(s[c.cursor].at) \in Nat
  BY <1>6, GensType, SongType
<1>11. Ticks(s[g[1]].at) + Hold <= Ticks(s[c.cursor].at)
  BY <1>8, <1>9, <1>10
<1> QED
  BY <1>2, <1>4, <1>7, <1>10, <1>11, TimingType

----------------------------------------------------------------------------
(***************************************************************************)
(* The steps of a session that plays.                                      *)
(***************************************************************************)

\* What a step has to leave while the session plays on, or fails.
LEMMA PlayStep ==
    ASSUME Inv, phase = "play", UNCHANGED <<song, mode>>, phase' \in {"play", "error"},
           TimeOK', StreamFits(stream', song),
           phase' = "play" => /\ Fits(coordinator', song) /\ Ledger(coordinator', song)
                              /\ down' = Live(coordinator')
                              /\ Accounts(coordinator', presses', mode)
    PROVE  Inv'
<1>1. PhaseOK'
  BY DEF Inv, PhaseOK, Phases
<1>2. LedgerOK'
  BY DEF LedgerOK
<1>3. StreamOK'
  BY DEF StreamOK
<1>4. KeysOK'
  BY DEF KeysOK, LedgerMatchesKeys
<1>5. AccountsOK'
  BY DEF AccountsOK
<1>6. AdmittedNeverDefers' /\ EveryNoteAccounted'
  BY DEF AdmittedNeverDefers, EveryNoteAccounted
<1> QED
  BY <1>1, <1>2, <1>3, <1>4, <1>5, <1>6 DEF Inv

\* What the invariant says of a session that plays.
LEMMA PlayFacts ==
    ASSUME Inv, phase = "play"
    PROVE  /\ song \in Songs /\ mode \in {"prepared", "planner"} /\ Admits(song)
           /\ Fits(coordinator, song) /\ Ledger(coordinator, song)
           /\ StreamFits(stream, song) /\ TimeOK
           /\ down = Live(coordinator)
           /\ Accounts(coordinator, presses, mode)
BY DEF Inv, PhaseOK, LedgerOK, StreamOK, KeysOK, LedgerMatchesKeys, AccountsOK

\* A frame sent and committed, by the stream or by the planner.
LEMMA SentStep ==
    ASSUME Inv, phase = "play", UNCHANGED <<song, mode>>, NEW f, NEW t, FrameFits(f, song),
           NEW done \in Completions, Send(f, Ups(f), Downs(f), done),
           Committed(CommitSuccess(coordinator, f, t)), StreamFits(stream', song)
    PROVE  Inv'
<1> DEFINE u == CommitUps(coordinator, f, t).c
           n == CommitSuccess(coordinator, f, t).c
<1>1. /\ song \in Songs /\ Fits(coordinator, song) /\ Ledger(coordinator, song) /\ TimeOK
      /\ down = Live(coordinator) /\ Accounts(coordinator, presses, mode)
  BY PlayFacts
<1>2. UpsCommitted(coordinator, f, u, song)
  BY <1>1, CommitUpsFits
<1>3. DownsCommitted(u, f, n, song)
  BY <1>1, CommitSuccessFits
<1>4. coordinator' = n /\ phase' \in {"play", "error"}
  BY DEF Committed
<1>5. phase' = "play" => CommitUps(coordinator, f, t).ok /\ DownsFree(u, f)
  BY DEF Committed, CommitSuccess, Check
<1>6. /\ down' = (down \ Ups(f)) \cup Downs(f)
      /\ presses' = [g \in DOMAIN presses |-> IF g \in Pressed(f) THEN presses[g] + 1 ELSE presses[g]]
  BY DEF Send, Pressed
<1> HIDE DEF u, n
<1>7. Fits(u, song) /\ Fits(n, song)
  BY <1>2, <1>3 DEF UpsCommitted, DownsCommitted
<1>8. Ledger(u, song) /\ Live(u) = Live(coordinator) \ Ups(f)
  BY <1>1, <1>2, UpsLedger
<1>9. Ledger(n, song) /\ Live(n) = Live(u) \cup Downs(f)
  BY <1>1, <1>3, <1>8, DownsLedger
<1>10. phase' = "play" => Accounts(n, presses', mode)
  <2> HAVE phase' = "play"
  <2>1. Accounts(u, presses, mode)
    BY <1>1, <1>2, <1>5, UpsAccounts
  <2> QED
    BY <1>1, <1>3, <1>5, <1>6, <1>7, <2>1, DownsAccounts
<1>11. TimeOK'
  BY <1>1, FrameDowns, SendTime
<1> QED
  BY <1>1, <1>4, <1>6, <1>7, <1>8, <1>9, <1>10, <1>11, PlayStep

\* dispatch_prepared_normal_frame.
LEMMA PreparedInv == Inv /\ dispatch_prepared => Inv'
<1> SUFFICES ASSUME Inv, dispatch_prepared PROVE Inv'
  OBVIOUS
<1> DEFINE f == Current
<1>1. phase = "play" /\ HasCurrent /\ UNCHANGED <<song, mode>>
  BY DEF dispatch_prepared, Playing
<1>2. FrameFits(f, song) /\ StreamFits(stream, song) /\ TimeOK
  BY <1>1, CurrentFits, PlayFacts
<1>3. CASE Frozen(coordinator, f)
  <2>1. /\ \E done \in Completions : Send(f, Ups(f), Downs(f), done)
        /\ Committed(CommitSuccess(coordinator, f, Elapsed))
        /\ stream' = [stream EXCEPT !.cursor = @ + 1]
    BY <1>3 DEF dispatch_prepared
  <2> HIDE DEF f
  <2>2. StreamFits(stream', song)
    BY <1>2, <2>1, StreamAdvance
  <2> QED
    BY <1>1, <1>2, <2>1, <2>2, SentStep
<1>4. CASE ~Frozen(coordinator, f)
  <2>1. phase' = "error" /\ UNCHANGED <<coordinator, stream, guard, clock, down, since, presses>>
    BY <1>4 DEF dispatch_prepared
  <2> HIDE DEF f
  <2>2. TimeOK'
    BY <1>2, <2>1 DEF TimeOK, TimeTypeOK, Guarded
  <2> QED
    BY <1>1, <1>2, <2>1, <2>2, PlayStep
<1> QED
  BY <1>3, <1>4

\* A frame without keys.
LEMMA MetadataInv == Inv /\ dispatch_metadata => Inv'
<1> SUFFICES ASSUME Inv, dispatch_metadata PROVE Inv'
  OBVIOUS
<1> DEFINE f == Current
           u == CommitUps(coordinator, f, f.at).c
           n == CommitMetadata(coordinator, f).c
<1>1. /\ phase = "play" /\ HasCurrent /\ UNCHANGED <<song, mode, guard, clock, down, since, presses>>
      /\ ~Physical(f) /\ Committed(CommitMetadata(coordinator, f))
      /\ stream' = [stream EXCEPT !.cursor = @ + 1]
  BY DEF dispatch_metadata, Playing
<1>2. /\ song \in Songs /\ Fits(coordinator, song) /\ Ledger(coordinator, song) /\ TimeOK
      /\ down = Live(coordinator) /\ Accounts(coordinator, presses, mode) /\ StreamFits(stream, song)
      /\ FrameFits(f, song)
  BY <1>1, PlayFacts, CurrentFits
<1> HIDE DEF f
<1>3. UpsCommitted(coordinator, f, u, song)
  BY <1>2, CommitUpsFits
<1>4. CursorMoved(u, n, song)
  BY <1>2, CommitMetadataFits
<1>5. coordinator' = n /\ phase' \in {"play", "error"}
  BY <1>1 DEF Committed
<1>6. phase' = "play" => CommitUps(coordinator, f, f.at).ok
  BY <1>1 DEF Committed, CommitMetadata, Check
<1>7. Ups(f) = {}
  BY <1>1 DEF Physical
<1> HIDE DEF u, n
<1>8. Fits(n, song)
  BY <1>4 DEF CursorMoved
<1>9. Ledger(n, song) /\ Live(n) = Live(coordinator)
  <2>1. Ledger(u, song) /\ Live(u) = Live(coordinator) \ Ups(f)
    BY <1>2, <1>3, UpsLedger
  <2>2. Ledger(n, song) /\ Live(n) = Live(u)
    BY <1>2, <1>4, <2>1, RestLedger
  <2> QED
    BY <1>7, <2>1, <2>2
<1>10. phase' = "play" => Accounts(n, presses, mode)
  BY <1>2, <1>3, <1>4, <1>6, UpsAccounts, CursorAccounts
<1>11. TimeOK'
  BY <1>1, <1>2 DEF TimeOK, TimeTypeOK, Guarded
<1>12. StreamFits(stream', song)
  BY <1>1, <1>2, StreamAdvance
<1> QED
  BY <1>1, <1>2, <1>5, <1>8, <1>9, <1>10, <1>11, <1>12, PlayStep

\* A packet with nothing left to play.
LEMMA StaleInv == Inv /\ dispatch_stale => Inv'
<1> SUFFICES ASSUME Inv, dispatch_stale PROVE Inv'
  OBVIOUS
<1> DEFINE n == CommitStale(coordinator).c
<1>1. /\ phase = "play" /\ UNCHANGED <<song, mode, stream, guard, clock, down, since, presses>>
      /\ Committed(CommitStale(coordinator))
  BY DEF dispatch_stale, Playing
<1>2. /\ song \in Songs /\ Fits(coordinator, song) /\ Ledger(coordinator, song) /\ TimeOK
      /\ down = Live(coordinator) /\ Accounts(coordinator, presses, mode) /\ StreamFits(stream, song)
  BY <1>1, PlayFacts
<1>3. CursorMoved(coordinator, n, song)
  BY <1>2, CommitStaleFits
<1>4. coordinator' = n /\ phase' \in {"play", "error"}
  BY <1>1 DEF Committed
<1> HIDE DEF n
<1>5. Fits(n, song)
  BY <1>3 DEF CursorMoved
<1>6. Ledger(n, song) /\ Live(n) = Live(coordinator)
  BY <1>2, <1>3, RestLedger
<1>7. Accounts(n, presses, mode)
  BY <1>2, <1>3, CursorAccounts
<1>8. TimeOK'
  BY <1>1, <1>2 DEF TimeOK, TimeTypeOK, Guarded
<1> QED
  BY <1>1, <1>2, <1>4, <1>5, <1>6, <1>7, <1>8, PlayStep

\* A planned frame that is sent, or a plan that fails.
LEMMA PlannedInv == Inv /\ dispatch_planned => Inv'
<1> SUFFICES ASSUME Inv, dispatch_planned PROVE Inv'
  OBVIOUS
<1> DEFINE f == Current
<1>1. /\ phase = "play" /\ HasCurrent /\ mode = "planner"
      /\ UNCHANGED <<song, mode, stream>>
  BY DEF dispatch_planned, Planning, Playing
<1>2. FrameFits(f, song)
  BY <1>1, CurrentFits
<1>3. /\ song \in Songs /\ Fits(coordinator, song) /\ Ledger(coordinator, song) /\ TimeOK
      /\ StreamFits(stream, song) /\ Admits(song)
  BY <1>1, PlayFacts
<1>4. CASE Outcome(f) # "play" \/ ~Frozen(coordinator, f)
  <2>1. /\ phase' = IF Outcome(f) = "play" THEN "error" ELSE Outcome(f)
        /\ UNCHANGED <<guard, clock, down, since>>
    BY <1>4 DEF dispatch_planned
  <2>2. coordinator.cursor <= Len(coordinator.packets) /\ f = Prepare(coordinator)
    BY <1>1 DEF HasCurrent, Current
  <2>3. coordinator.cursor \in DOMAIN song
    BY <1>3, <2>2, FitsPackets
  <2>4. Outcome(f) # "deferred"
    BY <1>3, <2>2, <2>3, NoDeferral
  <2>5. Outcome(f) \in {"error", "deferred", "play"}
    BY DEF Outcome
  <2> HIDE DEF f
  <2>6. phase' = "error"
    BY <2>1, <2>4, <2>5
  <2>7. TimeOK'
    BY <1>3, <2>1 DEF TimeOK, TimeTypeOK, Guarded
  <2> QED
    BY <1>1, <1>3, <2>6, <2>7, PlayStep
<1>5. CASE ~(Outcome(f) # "play" \/ ~Frozen(coordinator, f))
  <2>1. /\ \E done \in Completions : Send(f, Ups(f), Downs(f), done)
        /\ Committed(CommitSuccess(coordinator, f, Elapsed))
    BY <1>5 DEF dispatch_planned
  <2> HIDE DEF f
  <2> QED
    BY <1>1, <1>2, <1>3, <2>1, SentStep
<1> QED
  BY <1>4, <1>5

\* A frame whose Downs are dropped and whose Ups are sent.
LEMMA MissedInv == Inv /\ dispatch_missed => Inv'
<1> SUFFICES ASSUME Inv, dispatch_missed PROVE Inv'
  OBVIOUS
<1> DEFINE f == Current
           u == CommitUps(coordinator, f, Elapsed).c
           n == CommitMiss(coordinator, f, Elapsed).c
<1>1. /\ phase = "play" /\ HasCurrent /\ mode = "planner" /\ UNCHANGED <<song, mode, stream>>
      /\ Downs(f) # {}
      /\ IF Ups(f) = {} THEN UNCHANGED <<guard, clock, down, since, presses>>
         ELSE \E done \in Completions : Send(f, Ups(f), {}, done)
      /\ Committed(CommitMiss(coordinator, f, Elapsed))
  BY DEF dispatch_missed, Planned, Planning, Playing
<1>2. /\ song \in Songs /\ Fits(coordinator, song) /\ Ledger(coordinator, song) /\ TimeOK
      /\ down = Live(coordinator) /\ Accounts(coordinator, presses, "planner") /\ StreamFits(stream, song)
      /\ FrameFits(f, song)
  BY <1>1, PlayFacts, CurrentFits
<1> HIDE DEF f
<1>3. UpsCommitted(coordinator, f, u, song)
  BY <1>2, CommitUpsFits
<1>4. DownsDropped(u, f, n, song)
  BY <1>2, CommitMissFits
<1>5. coordinator' = n /\ phase' \in {"play", "error"}
  BY <1>1 DEF Committed
<1>6. phase' = "play" => CommitUps(coordinator, f, Elapsed).ok /\ DownsFree(u, f)
  BY <1>1 DEF Committed, CommitMiss, Check
<1> HIDE DEF u, n
<1>7. TimeOK' /\ down' = down \ Ups(f) /\ presses' = presses
  <2>0. presses = [g \in DOMAIN presses |-> presses[g]]
    BY <1>2 DEF Accounts
  <2>1. CASE Ups(f) = {}
    BY <1>1, <1>2, <2>1 DEF TimeOK, TimeTypeOK, Guarded
  <2>2. CASE Ups(f) # {}
    <3>1. PICK done \in Completions : Send(f, Ups(f), {}, done)
      BY <1>1, <2>2
    <3>2. TimeOK'
      BY <1>2, <3>1, FrameDowns, SendTime
    <3> QED
      BY <2>0, <3>1, <3>2 DEF Send
  <2> QED
    BY <2>1, <2>2
<1>8. Fits(u, song) /\ Fits(n, song)
  BY <1>3, <1>4 DEF UpsCommitted, DownsDropped
<1>9. Ledger(u, song) /\ Live(u) = Live(coordinator) \ Ups(f)
  BY <1>2, <1>3, UpsLedger
<1>10. Ledger(n, song) /\ Live(n) = Live(u)
  BY <1>2, <1>4, <1>9, RestLedger
<1>11. phase' = "play" => Accounts(n, presses, mode)
  <2> HAVE phase' = "play"
  <2>1. Accounts(u, presses, "planner")
    BY <1>2, <1>3, <1>6, UpsAccounts
  <2>2. Accounts(n, presses, "planner")
    BY <1>1, <1>2, <1>4, <1>6, <1>8, <2>1, DropAccounts
  <2> QED
    BY <1>1, <2>2
<1> QED
  BY <1>1, <1>2, <1>5, <1>7, <1>8, <1>9, <1>10, <1>11, PlayStep

\* Steps that touch neither the ledger nor the keys.
LEMMA WaitingInv ==
    ASSUME Inv, phase = "play", UNCHANGED <<song, mode, phase, coordinator, stream, guard, down, since, presses>>,
           clock' \in ClockRecord, clock'.now >= clock.now
    PROVE  Inv'
<1>1. /\ song \in Songs /\ Fits(coordinator, song) /\ Ledger(coordinator, song) /\ TimeOK
      /\ down = Live(coordinator) /\ Accounts(coordinator, presses, mode) /\ StreamFits(stream, song)
  BY PlayFacts
<1>2. TimeOK'
  BY <1>1, ClockTime
<1> QED
  BY <1>1, <1>2, PlayStep

\* The clock, the authorization of a Down, a focus pause and a resume.
LEMMA TickInv == Inv /\ (Tick \/ observe_future \/ admission_rejected \/ focus_pause \/ manual_resume) => Inv'
<1> SUFFICES ASSUME Inv, Tick \/ observe_future \/ admission_rejected \/ focus_pause \/ manual_resume
             PROVE  Inv'
  OBVIOUS
<1>1. /\ phase = "play"
      /\ UNCHANGED <<song, mode, phase, coordinator, stream, guard, down, since, presses>>
  BY DEF Tick, observe_future, admission_rejected, focus_pause, manual_resume, Planned, Planning, Playing, MayPause
<1>2. clock \in ClockRecord
  BY DEF Inv, TimeOK, TimeTypeOK
<1>3. clock' \in ClockRecord /\ clock'.now >= clock.now
  <2>1. CASE Tick
    BY <1>2, <2>1 DEF Tick, ClockRecord
  <2>2. CASE observe_future \/ admission_rejected
    BY <1>2, <2>2 DEF observe_future, admission_rejected, ClockRecord
  <2>3. CASE focus_pause
    BY <1>2, <2>3, PausesClock DEF focus_pause
  <2>4. CASE manual_resume
    BY <1>2, <2>4, PausesClock DEF manual_resume
  <2> QED
    BY <2>1, <2>2, <2>3, <2>4
<1> QED
  BY <1>1, <1>3, WaitingInv

\* suspend_live_input at a manual pause and when the window is back.
LEMMA PauseInv == Inv /\ (manual_pause \/ focus_restore) => Inv'
<1> SUFFICES ASSUME Inv, manual_pause \/ focus_restore PROVE Inv'
  OBVIOUS
<1> DEFINE n == CancelLive(coordinator).c
<1>1. phase = "play" /\ suspend_live_input /\ UNCHANGED <<song, mode, stream, presses>>
  BY DEF manual_pause, focus_restore, MayPause, Playing
<1>2. /\ song \in Songs /\ Fits(coordinator, song) /\ Ledger(coordinator, song) /\ TimeOK
      /\ Accounts(coordinator, presses, mode) /\ StreamFits(stream, song)
  BY <1>1, PlayFacts
<1>3. clock \in ClockRecord
  BY <1>2 DEF TimeOK, TimeTypeOK
<1>4. clock' \in ClockRecord /\ clock'.now = clock.now
  <2>1. CASE manual_pause
    BY <1>3, <2>1, PausesClock DEF manual_pause
  <2>2. CASE focus_restore
    BY <1>3, <2>2, PausesClock DEF focus_restore
  <2> QED
    BY <2>1, <2>2
<1>5. LiveCancelled(coordinator, n, song)
  BY <1>2, CancelLiveFits
<1>6. coordinator' = n /\ phase' \in {"play", "error"} /\ down' = {}
  BY <1>1 DEF suspend_live_input, Committed
<1>7. phase' = "play" => LocallyConsistent(coordinator)
  BY <1>1 DEF suspend_live_input, Committed, CancelLive, Check
<1> HIDE DEF n
<1>8. Fits(n, song) /\ Ledger(n, song) /\ Live(n) = {}
  BY <1>2, <1>5, RestLedger DEF LiveCancelled
<1>9. phase' = "play" => Accounts(n, presses, mode)
  BY <1>2, <1>5, <1>7, CancelAccounts
<1>10. TimeOK'
  BY <1>1, <1>2, <1>4, SuspendTime
<1> QED
  BY <1>1, <1>2, <1>6, <1>8, <1>9, <1>10, PlayStep

----------------------------------------------------------------------------
(***************************************************************************)
(* Starting and ending.                                                    *)
(***************************************************************************)

\* The initial states.
LEMMA InitInv == Init => Inv
<1> SUFFICES ASSUME Init PROVE Inv
  OBVIOUS
<1>1. /\ song \in Songs /\ mode \in {"prepared", "planner"} /\ phase = "new"
      /\ stream = Empty /\ guard = Open /\ clock = Midnight /\ down = {}
      /\ since = [k \in Keys |-> Never]
  BY DEF Init
<1>2. PhaseOK
  BY <1>1 DEF PhaseOK, Phases
<1>3. TimeOK
  BY <1>1, FreshTime
<1>4. LedgerOK /\ StreamOK /\ KeysOK /\ AccountsOK /\ AdmittedNeverDefers /\ EveryNoteAccounted
  BY <1>1 DEF LedgerOK, StreamOK, KeysOK, LedgerMatchesKeys, AccountsOK, AdmittedNeverDefers, EveryNoteAccounted
<1> QED
  BY <1>2, <1>3, <1>4 DEF Inv

\* The stream before the simulation.
LEMMA EmptyFits == \A s : StreamFits(Empty, s)
<1>1. Empty = [entries |-> <<>>, cursor |-> 1]
  BY DEF Empty
<1>2. Empty.entries = <<>> /\ Empty.cursor = 1
  BY <1>1
<1>3. <<>> \in Seq({<<>>[i] : i \in DOMAIN <<>>}) /\ DOMAIN <<>> = {}
  OBVIOUS
<1> QED
  BY <1>1, <1>2, <1>3 DEF StreamFits

\* NativeDispatchSession::new.
LEMMA AdmitInv == Inv /\ admit => Inv'
<1> SUFFICES ASSUME Inv, admit PROVE Inv'
  OBVIOUS
<1>1. /\ phase = "new" /\ phase' \in {"ready", "refused"}
      /\ phase' = "ready" => Admits(song)
      /\ UNCHANGED <<song, mode, coordinator, stream, guard, clock, down, since, presses>>
  BY DEF admit
<1>2. song \in Songs /\ mode \in {"prepared", "planner"} /\ stream = Empty /\ down = {} /\ TimeOK
  BY <1>1 DEF Inv, PhaseOK, StreamOK, KeysOK
<1>3. PhaseOK'
  BY <1>1, <1>2 DEF PhaseOK, Phases
<1>4. StreamOK'
  BY <1>1, <1>2, EmptyFits DEF StreamOK
<1>5. TimeOK'
  BY <1>1, <1>2 DEF TimeOK, TimeTypeOK, Guarded
<1>6. LedgerOK' /\ KeysOK' /\ AccountsOK' /\ AdmittedNeverDefers' /\ EveryNoteAccounted'
  BY <1>1, <1>2 DEF LedgerOK, KeysOK, LedgerMatchesKeys, AccountsOK, AdmittedNeverDefers, EveryNoteAccounted
<1> QED
  BY <1>3, <1>4, <1>5, <1>6 DEF Inv

\* The accounts of a new coordinator before anything was pressed.
LEMMA NewAccounts ==
    ASSUME NEW s \in Songs, NEW md
    PROVE  Accounts(NewCoordinator(Compile(s)), [g \in Gens(s) |-> 0], md)
<1> DEFINE c == NewCoordinator(Compile(s))
           pr == [g \in Gens(s) |-> 0]
<1>1. /\ c.state = [g \in Gens(s) |-> "Scheduled"]
      /\ c.token = [k \in Keys |-> NoGen]
      /\ c.counters = Zero
  BY NewFits
<1>2. pr \in [Gens(s) -> Int] /\ \A g \in Gens(s) : pr[g] = 0
  OBVIOUS
<1> HIDE DEF c, pr
<1>3. Tokens(c) = {} /\ InState(c, "DroppedExpired") = {}
  BY <1>1 DEF Tokens, InState
<1>4. c.counters.cancelled = 0 /\ c.counters.dropped_expired = 0
  BY <1>1 DEF Zero
<1>5. c.counters.cancelled = Cardinality(Tokens(c))
  BY <1>3, <1>4, FS_EmptySet
<1>6. Accounts(c, pr, md)
  BY <1>1, <1>2, <1>3, <1>4, <1>5 DEF Accounts
<1> QED
  BY <1>6 DEF c, pr

\* The worker boots with a new coordinator.
LEMMA BootInv == Inv /\ boot => Inv'
<1> SUFFICES ASSUME Inv, boot PROVE Inv'
  OBVIOUS
<1> DEFINE c == NewCoordinator(Compile(song))
<1>1. /\ phase = "ready" /\ phase' \in {"simulate", "play"}
      /\ coordinator' = c /\ presses' = [g \in Gens(song) |-> 0]
      /\ UNCHANGED <<song, mode, stream, guard, clock, down, since>>
  BY DEF boot, Gens
<1>2. /\ song \in Songs /\ mode \in {"prepared", "planner"} /\ Admits(song)
      /\ StreamFits(stream, song) /\ down = {} /\ TimeOK
  BY <1>1 DEF Inv, PhaseOK, StreamOK, KeysOK
<1>3. Fits(c, song) /\ Ledger(c, song) /\ Live(c) = {}
  BY <1>2, NewFits
<1>4. Accounts(c, [g \in Gens(song) |-> 0], mode)
  BY <1>2, NewAccounts
<1> HIDE DEF c
<1>5. PhaseOK' /\ StreamOK' /\ LedgerOK'
  BY <1>1, <1>2, <1>3 DEF PhaseOK, Phases, StreamOK, LedgerOK
<1>6. TimeOK'
  BY <1>1, <1>2 DEF TimeOK, TimeTypeOK, Guarded
<1>7. KeysOK'
  BY <1>1, <1>2, <1>3 DEF KeysOK, LedgerMatchesKeys
<1>8. AccountsOK'
  BY <1>1, <1>4 DEF AccountsOK
<1>9. AdmittedNeverDefers' /\ EveryNoteAccounted'
  BY <1>1 DEF AdmittedNeverDefers, EveryNoteAccounted
<1> QED
  BY <1>5, <1>6, <1>7, <1>8, <1>9 DEF Inv

\* The session starts with another.
LEMMA StartInv == Inv /\ start => Inv'
<1> SUFFICES ASSUME Inv, start PROVE Inv'
  OBVIOUS
<1> DEFINE c == NewCoordinator(Compile(song))
<1>1. /\ phase = "simulate" /\ phase' = "play" /\ coordinator' = c
      /\ UNCHANGED <<song, mode, stream, guard, clock, down, since, presses>>
  BY DEF start
<1>2. /\ song \in Songs /\ mode \in {"prepared", "planner"} /\ Admits(song)
      /\ StreamFits(stream, song) /\ down = {} /\ TimeOK /\ presses = [g \in Gens(song) |-> 0]
  BY <1>1 DEF Inv, PhaseOK, StreamOK, KeysOK, AccountsOK
<1>3. Fits(c, song) /\ Ledger(c, song) /\ Live(c) = {}
  BY <1>2, NewFits
<1>4. Accounts(c, [g \in Gens(song) |-> 0], mode)
  BY <1>2, NewAccounts
<1> HIDE DEF c
<1>5. PhaseOK' /\ StreamOK' /\ LedgerOK'
  BY <1>1, <1>2, <1>3 DEF PhaseOK, Phases, StreamOK, LedgerOK
<1>6. TimeOK'
  BY <1>1, <1>2 DEF TimeOK, TimeTypeOK, Guarded
<1>7. KeysOK'
  BY <1>1, <1>2, <1>3 DEF KeysOK, LedgerMatchesKeys
<1>8. AccountsOK'
  BY <1>1, <1>2, <1>4 DEF AccountsOK
<1>9. AdmittedNeverDefers' /\ EveryNoteAccounted'
  BY <1>1 DEF AdmittedNeverDefers, EveryNoteAccounted
<1> QED
  BY <1>5, <1>6, <1>7, <1>8, <1>9 DEF Inv

\* The simulated session freezes a frame.
LEMMA SimulateInv == Inv /\ simulate => Inv'
<1> SUFFICES ASSUME Inv, simulate PROVE Inv'
  OBVIOUS
<1> DEFINE f == Prepare(coordinator)
           n == IF Physical(f) THEN CommitSuccess(coordinator, f, f.at).c
                ELSE CommitMetadata(coordinator, f).c
<1>1. /\ phase = "simulate" /\ coordinator.cursor <= Len(coordinator.packets)
      /\ coordinator' = n
      /\ stream' = [stream EXCEPT !.entries = Append(@, f)]
      /\ phase' \in {"simulate", "error", Outcome(f)} /\ Outcome(f) \in {"error", "deferred", "play"}
      /\ phase' = Outcome(f) => Outcome(f) # "play"
      /\ UNCHANGED <<song, mode, guard, clock, down, since, presses>>
  BY DEF simulate, Outcome
<1>2. /\ song \in Songs /\ mode \in {"prepared", "planner"} /\ Admits(song)
      /\ Fits(coordinator, song) /\ Ledger(coordinator, song)
      /\ StreamFits(stream, song) /\ down = {} /\ TimeOK /\ presses = [g \in Gens(song) |-> 0]
  BY <1>1 DEF Inv, PhaseOK, LedgerOK, StreamOK, KeysOK, AccountsOK
<1>3. coordinator.cursor \in DOMAIN song
  BY <1>1, <1>2, FitsPackets
<1>4. FrameFits(f, song) /\ Outcome(f) # "deferred"
  BY <1>2, <1>3, PrepareFits, NoDeferral
<1> HIDE DEF f
<1>5. phase' \in {"simulate", "error"}
  BY <1>1, <1>4
<1>6. Fits(n, song) /\ Ledger(n, song)
  <2> DEFINE u == CommitUps(coordinator, f, f.at).c
  <2>1. UpsCommitted(coordinator, f, u, song)
    BY <1>2, <1>4, CommitUpsFits
  <2>2. Ledger(u, song)
    BY <1>2, <2>1, UpsLedger
  <2>3. CASE Physical(f)
    <3> DEFINE m == CommitSuccess(coordinator, f, f.at).c
    <3>1. DownsCommitted(u, f, m, song)
      BY <1>2, <1>4, CommitSuccessFits
    <3>2. n = m
      BY <2>3
    <3> HIDE DEF m, n, u
    <3>3. Fits(m, song) /\ Ledger(m, song)
      BY <1>2, <1>4, <2>2, <3>1, DownsLedger DEF DownsCommitted
    <3> QED
      BY <3>2, <3>3
  <2>4. CASE ~Physical(f)
    <3> DEFINE m == CommitMetadata(coordinator, f).c
    <3>1. CursorMoved(u, m, song)
      BY <1>2, <1>4, CommitMetadataFits
    <3>2. n = m
      BY <2>4
    <3> HIDE DEF m, n, u
    <3>3. Fits(m, song) /\ Ledger(m, song)
      BY <1>2, <2>2, <3>1, RestLedger DEF CursorMoved
    <3> QED
      BY <3>2, <3>3
  <2> QED
    BY <2>3, <2>4
<1> HIDE DEF n
<1>7. StreamFits(stream', song)
  BY <1>1, <1>2, <1>4, StreamAppend
<1>8. PhaseOK' /\ StreamOK' /\ LedgerOK'
  BY <1>1, <1>2, <1>5, <1>6, <1>7 DEF PhaseOK, Phases, StreamOK, LedgerOK
<1>9. TimeOK'
  BY <1>1, <1>2 DEF TimeOK, TimeTypeOK, Guarded
<1>10. KeysOK' /\ AccountsOK' /\ AdmittedNeverDefers' /\ EveryNoteAccounted'
  BY <1>1, <1>2, <1>5 DEF KeysOK, LedgerMatchesKeys, AccountsOK, AdmittedNeverDefers, EveryNoteAccounted
<1> QED
  BY <1>8, <1>9, <1>10 DEF Inv

\* A finished ledger: the counters the coordinator checks leave no generation
\* scheduled, active or cancelled, and nothing unclean but what was dropped.
LEMMA FinishedAccounts ==
    ASSUME NEW s \in Songs, NEW c, NEW pr, NEW md \in {"prepared", "planner"},
           Fits(c, s), Accounts(c, pr, md), is_finished(c), Consistent(c)
    PROVE  /\ InState(c, "Scheduled") \cup InState(c, "Active") = {}
           /\ \A g \in Gens(s) : \/ c.state[g] = "Released" /\ pr[g] = 1
                                 \/ c.state[g] = "DroppedExpired" /\ pr[g] = 0
           /\ Clean(c) => \A g \in Gens(s) : c.state[g] = "Released"
           /\ ~Clean(c) => md = "planner" /\ \E g \in Gens(s) : pr[g] = 0
<1> DEFINE N == Cardinality(Gens(s))
           A == InState(c, "Active")
           S == InState(c, "Scheduled")
           D == InState(c, "DroppedExpired")
<1>1. /\ c.state \in [Gens(s) -> Statuses] /\ DOMAIN c.state = Gens(s)
      /\ c.counters \in [released : Int, dropped_expired : Int, cancelled : Int]
      /\ c.activated \in Int
  BY DEF Fits
<1>2. IsFiniteSet(Gens(s)) /\ N \in Nat
  BY GensFinite, FS_CardinalityType
<1>3. A \subseteq Gens(s) /\ S \subseteq Gens(s) /\ D \subseteq Gens(s)
  BY <1>1 DEF InState
<1>4. Live(c) = {} /\ Tokens(c) = {} /\ Terminal(c) = N
  BY <1>1 DEF is_finished, Tokens
<1>5. Cardinality(A) = Cardinality(Live(c)) /\ Terminal(c) = Cardinality(Gens(s) \ (A \cup S))
  BY <1>1 DEF Consistent
<1>6. c.counters.released + Cardinality(Live(c)) <= c.activated /\ c.activated <= N
  BY <1>1 DEF Consistent, LocallyConsistent
<1> HIDE DEF N, A, S, D
<1>7. A = {}
  BY <1>2, <1>3, <1>4, <1>5, FS_Subset, FS_EmptySet
<1>8. S = {}
  <2>1. Gens(s) \ (A \cup S) \in SUBSET Gens(s)
    OBVIOUS
  <2>2. Cardinality(Gens(s)) = Cardinality(Gens(s) \ (A \cup S))
    BY <1>4, <1>5 DEF N
  <2>3. Gens(s) = Gens(s) \ (A \cup S)
    BY <1>2, <2>1, <2>2, FS_Subset
  <2> QED
    BY <1>3, <2>3
<1>9. \A g \in Gens(s) : c.state[g] # "Cancelled"
  <2>1. \A g \in Gens(s) : c.state[g] = "Cancelled" => \E k \in Keys : c.token[k] = g
    BY <1>1 DEF Accounts
  <2>2. \A k \in Keys : c.token[k] = NoGen
    BY <1>4 DEF Tokens
  <2> QED
    BY <2>1, <2>2, GensType
<1>10. \A g \in Gens(s) : c.state[g] = "Released" \/ c.state[g] = "DroppedExpired"
  <2>1. \A g \in Gens(s) : c.state[g] # "Active" /\ c.state[g] # "Scheduled"
    BY <1>1, <1>7, <1>8 DEF A, S, InState
  <2> QED
    BY <1>1, <1>9, <2>1 DEF Statuses
<1>11. \A g \in Gens(s) : pr[g] = IF c.state[g] \in {"Scheduled", "DroppedExpired"} THEN 0 ELSE 1
  BY <1>1 DEF Accounts
<1>12. D = {} <=> c.counters.dropped_expired = 0
  BY DEF Accounts, D
<1>13. Clean(c) => D = {}
  <2> HAVE Clean(c)
  <2>1. c.counters = [Zero EXCEPT !.released = Cardinality(DOMAIN c.state)]
    BY DEF Clean
  <2>2. c.counters.dropped_expired = 0
    BY <2>1 DEF Zero
  <2> QED
    BY <1>12, <2>2
<1>14. D = {} => Clean(c)
  <2> HAVE D = {}
  <2>1. c.counters.dropped_expired = 0
    BY <1>12
  <2>2. c.counters.cancelled = 0
    BY <1>4, FS_EmptySet DEF Accounts
  <2>3. c.counters.released = N
    BY <1>1, <1>2, <1>4, <2>1, <2>2 DEF Terminal
  <2>4. c.activated = N
    <3>1. Cardinality(Live(c)) = 0
      BY <1>4, FS_EmptySet
    <3> QED
      BY <1>1, <1>2, <1>6, <2>3, <3>1
  <2>5. c.counters = [Zero EXCEPT !.released = N]
    BY <1>1, <2>1, <2>2, <2>3 DEF Zero
  <2> QED
    BY <1>1, <2>4, <2>5 DEF Clean, N
<1>15. D # {} => md = "planner" /\ \E g \in Gens(s) : pr[g] = 0
  <2> HAVE D # {}
  <2>1. PICK g \in D : TRUE
    OBVIOUS
  <2>2. g \in Gens(s) /\ c.state[g] = "DroppedExpired"
    BY <1>3, <2>1 DEF D, InState
  <2>3. md = "planner"
    BY DEF Accounts, D
  <2> QED
    BY <1>11, <2>2, <2>3
<1>16. D = {} => \A g \in Gens(s) : c.state[g] = "Released"
  BY <1>1, <1>10 DEF D, InState
<1> QED
  BY <1>7, <1>8, <1>10, <1>11, <1>13, <1>14, <1>15, <1>16 DEF A, S

\* The terminal cleanup, however the session ended.
LEMMA CleanupInv ==
    ASSUME Inv, NEW outcome \in {"error", "finished", "unclean", "stopped"}, Finalize(outcome), EveryNoteAccounted'
    PROVE  Inv'
<1>1. /\ phase' \in {outcome, "error"} /\ UNCHANGED <<song, mode>>
      /\ down' = {} /\ since' = [k \in Keys |-> Never] /\ guard' = Open /\ clock' = Midnight
  BY DEF Finalize
<1>2. TimeOK'
  BY <1>1, CleanedTime
<1>3. PhaseOK'
  BY <1>1 DEF Inv, PhaseOK, Phases
<1>4. LedgerOK' /\ StreamOK' /\ KeysOK' /\ AccountsOK' /\ AdmittedNeverDefers'
  BY <1>1 DEF LedgerOK, StreamOK, KeysOK, LedgerMatchesKeys, AccountsOK, AdmittedNeverDefers
<1> QED
  BY <1>2, <1>3, <1>4 DEF Inv

\* A session that is stopped says nothing of its notes.
LEMMA StopInv == Inv /\ stop => Inv'
<1> SUFFICES ASSUME Inv, stop PROVE Inv'
  OBVIOUS
<1>1. Finalize("stopped") /\ phase' \in {"stopped", "error"}
  BY DEF stop, Finalize
<1>2. EveryNoteAccounted'
  BY <1>1 DEF EveryNoteAccounted
<1> QED
  BY <1>1, <1>2, CleanupInv

\* The end of a song.
LEMMA FinishInv == Inv /\ finish => Inv'
<1> SUFFICES ASSUME Inv, finish PROVE Inv'
  OBVIOUS
<1> DEFINE c == coordinator
           outcome == CASE ~is_finished(c) -> "error"
                        [] is_finished(c) /\ Clean(c) -> "finished"
                        [] OTHER -> "unclean"
<1>1. phase = "play" /\ Finalize(outcome)
  BY DEF finish
<1>2. /\ outcome \in {"error", "finished", "unclean", "stopped"}
      /\ outcome = "finished" => is_finished(c) /\ Clean(c)
      /\ outcome = "unclean" => is_finished(c) /\ ~Clean(c)
  OBVIOUS
<1> HIDE DEF outcome
<1>3. /\ phase' = outcome \/ phase' = "error"
      /\ phase' \in {"finished", "unclean"} => phase' = outcome /\ Consistent(c)
      /\ coordinator' = CancelAll(c) /\ UNCHANGED <<mode, presses>>
  BY <1>1, <1>2 DEF Finalize
<1>4. /\ song \in Songs /\ mode \in {"prepared", "planner"} /\ Fits(c, song)
      /\ Accounts(c, presses, mode)
  BY <1>1, PlayFacts
<1>5. EveryNoteAccounted'
  <2> SUFFICES ASSUME phase' \in {"finished", "unclean"}
               PROVE  /\ \A g \in DOMAIN presses' :
                             \/ coordinator'.state[g] = "Released" /\ presses'[g] = 1
                             \/ /\ coordinator'.state[g] = "DroppedExpired"
                                /\ presses'[g] = 0 /\ phase' = "unclean"
                      /\ phase' = "unclean" => mode' = "planner" /\ \E g \in DOMAIN presses' : presses'[g] = 0
    BY DEF EveryNoteAccounted
  <2>1. is_finished(c) /\ Consistent(c) /\ phase' = outcome
    BY <1>2, <1>3
  <2>2. /\ InState(c, "Scheduled") \cup InState(c, "Active") = {}
        /\ \A g \in Gens(song) : \/ c.state[g] = "Released" /\ presses[g] = 1
                                 \/ c.state[g] = "DroppedExpired" /\ presses[g] = 0
        /\ Clean(c) => \A g \in Gens(song) : c.state[g] = "Released"
        /\ ~Clean(c) => mode = "planner" /\ \E g \in Gens(song) : presses[g] = 0
    BY <1>4, <2>1, FinishedAccounts
  <2>3. \A g \in Gens(song) : coordinator'.state[g] = c.state[g]
    <3>1. CancelAll(c).state =
             [g \in Gens(song) |-> IF g \in InState(c, "Scheduled") \cup InState(c, "Active")
                                   THEN "Cancelled" ELSE c.state[g]]
      BY <1>4, CancelAllFits
    <3> QED
      BY <1>3, <2>2, <3>1
  <2>4. DOMAIN presses = Gens(song)
    BY <1>4 DEF Accounts, Fits
  <2>5. CASE phase' = "finished"
    BY <1>2, <1>3, <2>1, <2>2, <2>3, <2>4, <2>5
  <2>6. CASE phase' = "unclean"
    BY <1>2, <1>3, <2>1, <2>2, <2>3, <2>4, <2>6
  <2> QED
    BY <2>5, <2>6
<1> QED
  BY <1>1, <1>2, <1>5, CleanupInv

----------------------------------------------------------------------------
(***************************************************************************)
(* The theorems.                                                           *)
(***************************************************************************)

\* Every step, stuttering included, keeps the invariant.
LEMMA NextInv == Inv /\ [Next]_vars => Inv'
<1> SUFFICES ASSUME Inv, [Next]_vars PROVE Inv'
  OBVIOUS
<1>1. CASE admit
  BY <1>1, AdmitInv
<1>2. CASE boot
  BY <1>2, BootInv
<1>3. CASE simulate
  BY <1>3, SimulateInv
<1>4. CASE start
  BY <1>4, StartInv
<1>5. CASE Tick \/ observe_future \/ admission_rejected \/ focus_pause \/ manual_resume
  BY <1>5, TickInv
<1>6. CASE manual_pause \/ focus_restore
  BY <1>6, PauseInv
<1>7. CASE dispatch_prepared
  BY <1>7, PreparedInv
<1>8. CASE dispatch_metadata
  BY <1>8, MetadataInv
<1>9. CASE dispatch_stale
  BY <1>9, StaleInv
<1>10. CASE dispatch_planned
  BY <1>10, PlannedInv
<1>11. CASE dispatch_missed
  BY <1>11, MissedInv
<1>12. CASE finish
  BY <1>12, FinishInv
<1>13. CASE stop
  BY <1>13, StopInv
<1>14. CASE UNCHANGED vars
  <2>1. PhaseOK' /\ LedgerOK' /\ StreamOK'
    BY <1>14 DEF vars, Inv, PhaseOK, LedgerOK, StreamOK
  <2>2. TimeOK'
    BY <1>14 DEF vars, Inv, TimeOK, TimeTypeOK, Guarded
  <2>3. KeysOK' /\ AccountsOK' /\ AdmittedNeverDefers' /\ EveryNoteAccounted'
    BY <1>14 DEF vars, Inv, KeysOK, LedgerMatchesKeys, AccountsOK, AdmittedNeverDefers, EveryNoteAccounted
  <2> QED
    BY <2>1, <2>2, <2>3 DEF Inv
<1> QED
  BY <1>1, <1>2, <1>3, <1>4, <1>5, <1>6, <1>7, <1>8, <1>9, <1>10, <1>11, <1>12, <1>13, <1>14
  DEF Next, Dispatch, Resume

\* The invariant holds in every reachable state: the ledger fits the song, the
\* guard covers the keys and the accounts balance, whatever was late or paused.
THEOREM Invariant == Spec => []Inv
<1> QED
  BY InitInv, NextInv, PTL DEF Spec

\* For every admitted song and every rate of the clock, no release is ever
\* deferred to its hold floor (AdmittedNeverDefers).
THEOREM ReleasesNeverDefer == Spec => []AdmittedNeverDefers
<1>1. Inv => AdmittedNeverDefers
  BY DEF Inv
<1> QED
  BY <1>1, Invariant, PTL

\* While a session plays, exactly the keys with an active generation are down
\* (LedgerMatchesKeys).
THEOREM LedgerIsTheKeyboard == Spec => []LedgerMatchesKeys
<1>1. Inv => LedgerMatchesKeys
  BY DEF Inv, KeysOK
<1> QED
  BY <1>1, Invariant, PTL

\* A song that ran to its end pressed and released every note once or, in the
\* planner, dropped it, and only then is it unclean (EveryNoteAccounted).
THEOREM NotesAreAccounted == Spec => []EveryNoteAccounted
<1>1. Inv => EveryNoteAccounted
  BY DEF Inv
<1> QED
  BY <1>1, Invariant, PTL

\* What KeysSpaced allows a step.
Spaced ==
    /\ \A k \in down' \ down : clock.now >= since[k] + Frame
    /\ coordinator'.cursor > coordinator.cursor => \A k \in down \ down' : clock.now >= since[k] + Hold

\* A due frame presses and releases no key before its floor.
LEMMA SentSpaced ==
    ASSUME TimeOK, NEW s \in Songs, NEW f, FrameFits(f, s), Due(f),
           NEW downs, downs \subseteq Downs(f), NEW done, Send(f, Ups(f), downs, done)
    PROVE  Spaced
<1>1. down' = (down \ Ups(f)) \cup downs
  BY DEF Send
<1>2. /\ \A k \in Ups(f) : guard.up[k] <= clock.now
      /\ \A k \in Downs(f) : guard.down[k] <= clock.now /\ guard.barrier <= clock.now
  BY DEF Due, Floors
<1>3. /\ clock.now \in Nat /\ guard.barrier \in Int /\ down \subseteq Keys
      /\ \A k \in Keys : since[k] \in Int /\ guard.up[k] \in Int /\ guard.down[k] \in Int
  BY DEF TimeOK, TimeTypeOK, ClockRecord, GuardRecord
<1>4. Downs(f) \subseteq Keys
  BY FrameDowns
<1>5. ASSUME NEW k \in down' \ down PROVE clock.now >= since[k] + Frame
  <2>1. k \in Downs(f) /\ k \in Keys /\ k \notin down
    BY <1>1, <1>4
  <2>2. since[k] = Never \/ since[k] + Frame <= guard.down[k] \/ since[k] + Frame <= guard.barrier
    BY <2>1 DEF TimeOK, Guarded
  <2>3. guard.down[k] <= clock.now /\ guard.barrier <= clock.now /\ since[k] \in Int /\ guard.down[k] \in Int
    BY <1>2, <1>3, <2>1
  <2> QED
    BY <1>3, <2>2, <2>3, TimingType
<1>6. ASSUME NEW k \in down \ down' PROVE clock.now >= since[k] + Hold
  <2>1. k \in Ups(f) /\ k \in Keys /\ k \in down
    BY <1>1, <1>3
  <2>2. since[k] + Hold <= guard.up[k]
    BY <2>1 DEF TimeOK, Guarded
  <2>3. guard.up[k] <= clock.now /\ since[k] \in Int /\ guard.up[k] \in Int
    BY <1>2, <1>3, <2>1
  <2> QED
    BY <1>3, <2>2, <2>3, TimingType
<1> QED
  BY <1>5, <1>6 DEF Spaced

\* Steps that move no key, and steps that release every key where the song stands.
LEMMA QuietSpaced ==
    ASSUME UNCHANGED down \/ (down' = {} /\ coordinator.cursor \in Nat /\ coordinator'.cursor = coordinator.cursor)
    PROVE  Spaced
BY DEF Spaced

\* Every step keeps keys apart.
LEMMA NextSpaced == Inv /\ Next => Spaced
<1> SUFFICES ASSUME Inv, Next PROVE Spaced
  OBVIOUS
<1> DEFINE f == Current
<1>1. CASE admit \/ boot \/ simulate \/ start \/ Tick \/ observe_future \/ admission_rejected
           \/ focus_pause \/ manual_resume \/ dispatch_metadata \/ dispatch_stale
  <2>1. UNCHANGED down
    BY <1>1 DEF admit, boot, simulate, start, Tick, observe_future, admission_rejected,
                focus_pause, manual_resume, dispatch_metadata, dispatch_stale
  <2> QED
    BY <2>1, QuietSpaced
<1>2. CASE manual_pause \/ focus_restore
  <2>1. phase = "play" /\ suspend_live_input
    BY <1>2 DEF manual_pause, focus_restore, MayPause, Playing
  <2>2. song \in Songs /\ Fits(coordinator, song)
    BY <2>1, PlayFacts
  <2>3. down' = {} /\ coordinator' = CancelLive(coordinator).c
    BY <2>1 DEF suspend_live_input, Committed
  <2>4. coordinator'.cursor = coordinator.cursor
    BY <2>2, <2>3, CancelLiveFits DEF LiveCancelled
  <2>5. coordinator.cursor \in Nat
    BY <2>2 DEF Fits
  <2> QED
    BY <2>3, <2>4, <2>5, QuietSpaced
<1>3. CASE finish \/ stop
  <2>1. phase = "play" /\ down' = {} /\ coordinator' = CancelAll(coordinator)
    BY <1>3 DEF finish, stop, Finalize
  <2>2. song \in Songs /\ Fits(coordinator, song)
    BY <2>1, PlayFacts
  <2>3. coordinator'.cursor = coordinator.cursor
    BY <2>1, <2>2, CancelAllFits
  <2>4. coordinator.cursor \in Nat
    BY <2>2 DEF Fits
  <2> QED
    BY <2>1, <2>3, <2>4, QuietSpaced
<1>4. CASE dispatch_prepared \/ dispatch_planned \/ dispatch_missed
  <2>1. phase = "play" /\ HasCurrent
    BY <1>4 DEF dispatch_prepared, dispatch_planned, dispatch_missed, Planned, Planning, Playing
  <2>2. song \in Songs /\ FrameFits(f, song) /\ TimeOK
    BY <2>1, PlayFacts, CurrentFits
  <2>3. \/ UNCHANGED down
        \/ Due(f) /\ \E done \in Completions : Send(f, Ups(f), Downs(f), done)
        \/ Due(f) /\ \E done \in Completions : Send(f, Ups(f), {}, done)
    <3>1. CASE dispatch_prepared
      BY <3>1 DEF dispatch_prepared
    <3>2. CASE dispatch_planned
      BY <3>2 DEF dispatch_planned
    <3>3. CASE dispatch_missed
      BY <3>3 DEF dispatch_missed
    <3> QED
      BY <1>4, <3>1, <3>2, <3>3
  <2> HIDE DEF f
  <2> QED
    BY <2>2, <2>3, SentSpaced, QuietSpaced
<1> QED
  BY <1>1, <1>2, <1>3, <1>4 DEF Next, Dispatch, Resume

\* No press comes within a frame of its key's last release and no packet
\* releases a key before its hold is over, for every timing, lateness and
\* pause (KeysSpaced).
THEOREM KeysAreSpaced == Spec => KeysSpaced
<1>1. Inv /\ [Next]_vars =>
        [/\ \A k \in down' \ down : clock.now >= since[k] + Frame
         /\ coordinator'.cursor > coordinator.cursor =>
                \A k \in down \ down' : clock.now >= since[k] + Hold]_vars
  BY NextSpaced DEF Spaced
<1> QED
  BY <1>1, Invariant, PTL DEF Spec, KeysSpaced

----------------------------------------------------------------------------
(***************************************************************************)
(* What compile_runtime_intents computes: the open slots after each frame, *)
(* and the pairing of every press with its Up.                             *)
(***************************************************************************)
\* Every set of naturals has a least element.
LEMMA Least ==
  ASSUME NEW T, T \subseteq Nat, T # {}
  PROVE  \E x \in T : \A y \in T : x <= y
<1> DEFINE R == OpToRel(<, Nat)
<1>1. IsWellFoundedOn(R, Nat)
  BY NatLessThanWellFounded
<1>2. \A x, y \in Nat : x < y => <<x, y>> \in R
  BY DEF OpToRel
<1> HIDE DEF R
<1>3. PICK x \in T : \A y \in T : ~ (<<y, x>> \in R)
  BY <1>1, WFMin
<1>4. ASSUME NEW y \in T PROVE x <= y
  <2>1. x \in Nat /\ y \in Nat
    OBVIOUS
  <2>2. ~(y < x)
    BY <1>2, <1>3, <2>1
  <2> QED
    BY <2>1, <2>2
<1> QED
  BY <1>4

\* A set that has 0 and every successor has every natural: the form of
\* induction used here, for sets of frame numbers.
LEMMA SetInduction ==
  ASSUME NEW T, 0 \in T, \A n \in Nat : n \in T => n + 1 \in T
  PROVE  Nat \subseteq T
<1> SUFFICES ASSUME NEW m \in Nat, m \notin T PROVE FALSE
  OBVIOUS
<1> DEFINE U == {n \in Nat : n \notin T}
<1>1. PICK x \in U : \A y \in U : x <= y
  BY Least
<1>2. x # 0 /\ x - 1 \in Nat
  BY <1>1
<1>3. x - 1 \in T
  BY <1>1, <1>2
<1> QED
  BY <1>1, <1>2, <1>3

\* The open slots after frame i, from those before it: its Downs open, its
\* Ups close (one round of the loop of compile_runtime_intents).
OpenStep(s, i, before) ==
    [k \in Keys |-> CASE k \in s[i].downs -> <<i, k>>
                      [] k \in s[i].ups \ s[i].downs -> NoGen
                      [] OTHER -> before[k]]

\* A function that satisfies the recursion of OpenAfter exists, so that
\* the one the definition chooses satisfies it too.
LEMMA OpenExists ==
    ASSUME NEW s \in Songs
    PROVE  \E f : f = [i \in 0 .. Len(s) |-> IF i = 0 THEN [k \in Keys |-> NoGen] ELSE OpenStep(s, i, f[i - 1])]
<1> DEFINE N == Len(s)
           U == ((1 .. N) \X Keys) \cup {NoGen}
           V == [Keys -> U]
           Z == [k \in Keys |-> NoGen]
           Good(f, n) == f[0] = Z /\ \A i \in 1 .. n : f[i] = OpenStep(s, i, f[i - 1])
           T == {n \in Nat : n <= N => \E f \in [0 .. N -> V] : Good(f, n)}
<1>1. N \in Nat /\ DOMAIN s = 1 .. N
  BY SongType
<1>2. \A i \in 1 .. N : \A v \in V : OpenStep(s, i, v) \in V
  BY <1>1, SongType DEF OpenStep
<1>3. Z \in V
  OBVIOUS
<1> HIDE DEF V, Z, N
<1>4. 0 \in T
  <2> DEFINE f == [i \in 0 .. N |-> Z]
  <2>1. f \in [0 .. N -> V]
    BY <1>3
  <2>2. f[0] = Z
    BY <1>1
  <2> HIDE DEF f
  <2>3. Good(f, 0)
    BY <2>2
  <2> QED
    BY <2>1, <2>3
<1>5. ASSUME NEW n \in Nat, n \in T PROVE n + 1 \in T
  <2> SUFFICES ASSUME n + 1 <= N PROVE \E f \in [0 .. N -> V] : Good(f, n + 1)
    OBVIOUS
  <2>1. PICK f \in [0 .. N -> V] : Good(f, n)
    BY <1>1, <1>5
  <2> DEFINE g == [f EXCEPT ![n + 1] = OpenStep(s, n + 1, f[n])]
  <2>2. f[n] \in V /\ OpenStep(s, n + 1, f[n]) \in V
    BY <1>1, <1>2
  <2>3. g \in [0 .. N -> V]
    BY <2>2
  <2>4. \A i \in 0 .. n : g[i] = f[i]
    BY <1>1
  <2>5. g[n + 1] = OpenStep(s, n + 1, f[n])
    BY <1>1
  <2> HIDE DEF g
  <2>6. ASSUME NEW i \in 1 .. n + 1 PROVE g[i] = OpenStep(s, i, g[i - 1])
    <3>1. g[i - 1] = f[i - 1]
      BY <2>4
    <3>2. CASE i = n + 1
      BY <2>5, <3>1, <3>2
    <3>3. CASE i \in 1 .. n
      BY <2>1, <2>4, <3>1, <3>3
    <3> QED
      BY <3>2, <3>3
  <2>7. g[0] = Z
    BY <2>1, <2>4
  <2> QED
    BY <2>3, <2>6, <2>7
<1>6. Nat \subseteq T
  <2> HIDE DEF T
  <2> QED
    BY <1>4, <1>5, SetInduction
<1>7. PICK f \in [0 .. N -> V] : Good(f, N)
  BY <1>1, <1>6
<1>8. f = [i \in 0 .. N |-> IF i = 0 THEN Z ELSE OpenStep(s, i, f[i - 1])]
  <2>1. \A i \in 0 .. N : f[i] = IF i = 0 THEN Z ELSE OpenStep(s, i, f[i - 1])
    BY <1>1, <1>7
  <2> QED
    BY <2>1
<1> QED
  BY <1>8 DEF N, Z

\* The open slots after each frame follow from those after the one before.
LEMMA OpenUnfolds ==
    ASSUME NEW s \in Songs
    PROVE  LET open == OpenAfter(s) IN
           open = [i \in 0 .. Len(s) |-> IF i = 0 THEN [k \in Keys |-> NoGen] ELSE OpenStep(s, i, open[i - 1])]
BY OpenExists DEF OpenAfter, OpenStep

----------------------------------------------------------------------------
(***************************************************************************)
(* What the pairing means.                                                 *)
(***************************************************************************)
\* The press of k in frame j is neither closed nor repeated up to frame i.
Sounds(s, j, i, k) ==
    k \in s[j].downs /\ \A m \in j + 1 .. i : k \notin s[m].ups /\ k \notin s[m].downs

\* The open slot of k after i frames is the press that still sounds.
OpenMeans(s, i) ==
    \A k \in Keys :
        /\ OpenAfter(s)[i][k] = NoGen \/ \E j \in 1 .. i : OpenAfter(s)[i][k] = <<j, k>>
        /\ \A j \in 1 .. i : OpenAfter(s)[i][k] = <<j, k>> <=> Sounds(s, j, i, k)

\* One frame of the compiler keeps the meaning of the open slots.
LEMMA OpenMeansStep ==
    ASSUME NEW s \in Songs, NEW n \in Nat, n + 1 <= Len(s), OpenMeans(s, n)
    PROVE  OpenMeans(s, n + 1)
<1> DEFINE open == OpenAfter(s)
           i == n + 1
<1>1. Len(s) \in Nat /\ i \in 1 .. Len(s) /\ i \in DOMAIN s
  BY SongType
<1>2. open = [x \in 0 .. Len(s) |-> IF x = 0 THEN [k \in Keys |-> NoGen] ELSE OpenStep(s, x, open[x - 1])]
  BY OpenUnfolds
<1> HIDE DEF open
<1>3. open[i] = OpenStep(s, i, open[n])
  BY <1>1, <1>2
<1> SUFFICES ASSUME NEW k \in Keys
             PROVE  /\ open[i][k] = NoGen \/ \E j \in 1 .. i : open[i][k] = <<j, k>>
                    /\ \A j \in 1 .. i : open[i][k] = <<j, k>> <=> Sounds(s, j, i, k)
  BY DEF OpenMeans, open
<1>4. /\ open[n][k] = NoGen \/ \E j \in 1 .. n : open[n][k] = <<j, k>>
      /\ \A j \in 1 .. n : open[n][k] = <<j, k>> <=> Sounds(s, j, n, k)
  BY DEF OpenMeans, open
<1>5. Sounds(s, i, i, k) <=> k \in s[i].downs
  BY <1>1 DEF Sounds
<1>6. \A j \in 1 .. n : Sounds(s, j, i, k) <=> Sounds(s, j, n, k) /\ k \notin s[i].ups /\ k \notin s[i].downs
  <2> TAKE j \in 1 .. n
  <2>1. \A m \in Int : m \in j + 1 .. i <=> m \in j + 1 .. n \/ m = i
    OBVIOUS
  <2> QED
    BY <2>1 DEF Sounds
<1>7. CASE k \in s[i].downs
  <2>1. open[i][k] = <<i, k>>
    BY <1>3, <1>7 DEF OpenStep
  <2>2. \A j \in 1 .. n : ~Sounds(s, j, i, k) /\ <<i, k>> # <<j, k>>
    BY <1>6, <1>7
  <2> QED
    BY <1>1, <1>5, <1>7, <2>1, <2>2
<1>8. CASE k \notin s[i].downs /\ k \in s[i].ups
  <2>1. open[i][k] = NoGen
    BY <1>3, <1>8 DEF OpenStep
  <2>2. \A j \in 1 .. i : NoGen # <<j, k>>
    BY DEF NoGen
  <2>3. \A j \in 1 .. i : ~Sounds(s, j, i, k)
    BY <1>5, <1>6, <1>8
  <2> QED
    BY <2>1, <2>2, <2>3
<1>9. CASE k \notin s[i].downs /\ k \notin s[i].ups
  <2>1. open[i][k] = open[n][k]
    BY <1>3, <1>9 DEF OpenStep
  <2>2. open[n][k] # <<i, k>>
    <3>1. NoGen # <<i, k>> /\ \A j \in 1 .. n : <<j, k>> # <<i, k>>
      BY DEF NoGen
    <3> QED
      BY <1>4, <3>1
  <2>3. \A j \in 1 .. n : open[i][k] = <<j, k>> <=> Sounds(s, j, i, k)
    BY <1>4, <1>6, <1>9, <2>1
  <2>4. open[i][k] = <<i, k>> <=> Sounds(s, i, i, k)
    BY <1>5, <1>9, <2>1, <2>2
  <2> QED
    BY <1>4, <2>1, <2>3, <2>4
<1> QED
  BY <1>7, <1>8, <1>9

\* The compiler's open slots are the presses that still sound.
LEMMA OpenIsSounding ==
    ASSUME NEW s \in Songs
    PROVE  \A i \in 0 .. Len(s) : OpenMeans(s, i)
<1> DEFINE T == {n \in Nat : n <= Len(s) => OpenMeans(s, n)}
<1>1. Len(s) \in Nat
  BY SongType
<1>2. OpenMeans(s, 0)
  <2> DEFINE open == OpenAfter(s)
  <2>1. open = [x \in 0 .. Len(s) |-> IF x = 0 THEN [k \in Keys |-> NoGen] ELSE OpenStep(s, x, open[x - 1])]
    BY OpenUnfolds
  <2> HIDE DEF open
  <2>2. open[0] = [k \in Keys |-> NoGen]
    BY <1>1, <2>1
  <2>3. /\ \A k \in Keys : OpenAfter(s)[0][k] = NoGen
        /\ ~ \E j \in 1 .. 0 : TRUE
    BY <2>2 DEF open
  <2> QED
    BY <2>3 DEF OpenMeans
<1>3. 0 \in T
  BY <1>2
<1>4. ASSUME NEW n \in Nat, n \in T PROVE n + 1 \in T
  <2>1. n + 1 <= Len(s) => n <= Len(s)
    BY <1>1
  <2> QED
    BY <1>4, <2>1, OpenMeansStep
<1> HIDE DEF T
<1>5. Nat \subseteq T
  BY <1>3, <1>4, SetInduction
<1> QED
  BY <1>1, <1>5 DEF T

\* Frame j is the first after i that lets k go.
IsFirstUp(s, i, k, j) ==
    /\ j \in i + 1 .. Len(s)
    /\ k \in s[j].ups
    /\ \A m \in i + 1 .. j - 1 : k \notin s[m].ups

\* A key has at most one first Up after a frame, and one if it has any.
LEMMA FirstUpIs ==
    ASSUME NEW s \in Songs, NEW i \in DOMAIN s, NEW k
    PROVE  /\ \A j : IsFirstUp(s, i, k, j) => FirstUp(s, i, k) = j
           /\ (\E j \in i + 1 .. Len(s) : k \in s[j].ups) => IsFirstUp(s, i, k, FirstUp(s, i, k))
<1>1. Len(s) \in Nat /\ DOMAIN s = 1 .. Len(s)
  BY SongType
<1>2. \A j, m : IsFirstUp(s, i, k, j) /\ IsFirstUp(s, i, k, m) => j = m
  <2> SUFFICES ASSUME NEW j, NEW m, IsFirstUp(s, i, k, j), IsFirstUp(s, i, k, m), j # m
               PROVE  FALSE
    OBVIOUS
  <2>1. j \in Int /\ m \in Int
    BY <1>1 DEF IsFirstUp
  <2>2. CASE j < m
    BY <1>1, <2>1, <2>2 DEF IsFirstUp
  <2>3. CASE m < j
    BY <1>1, <2>1, <2>3 DEF IsFirstUp
  <2> QED
    BY <2>1, <2>2, <2>3
<1>3. FirstUp(s, i, k) = CHOOSE j \in i + 1 .. Len(s) : IsFirstUp(s, i, k, j)
  <2>1. \A j \in i + 1 .. Len(s) :
            IsFirstUp(s, i, k, j) <=> k \in s[j].ups /\ \A m \in i + 1 .. j - 1 : k \notin s[m].ups
    BY DEF IsFirstUp
  <2> QED
    BY <2>1 DEF FirstUp
<1>4. ASSUME NEW j, IsFirstUp(s, i, k, j) PROVE FirstUp(s, i, k) = j
  <2>1. j \in i + 1 .. Len(s)
    BY <1>4 DEF IsFirstUp
  <2> QED
    BY <1>2, <1>3, <1>4, <2>1
<1>5. ASSUME \E j \in i + 1 .. Len(s) : k \in s[j].ups
      PROVE  \E j : IsFirstUp(s, i, k, j)
  <2> DEFINE U == {j \in i + 1 .. Len(s) : k \in s[j].ups}
  <2>1. U \subseteq Nat /\ U # {}
    BY <1>1, <1>5
  <2>2. PICK j \in U : \A m \in U : j <= m
    BY <2>1, Least
  <2>3. \A m \in i + 1 .. j - 1 : k \notin s[m].ups
    <3> TAKE m \in i + 1 .. j - 1
    <3>1. m \in i + 1 .. Len(s) /\ ~(j <= m)
      BY <1>1, <2>2
    <3> QED
      BY <2>2, <3>1
  <2> QED
    BY <2>2, <2>3 DEF IsFirstUp
<1> QED
  BY <1>4, <1>5

\* In a song that compiles, a key is not pressed again before it was let go.
LEMMA NoRepress ==
    ASSUME NEW s \in Songs, Compiles(s), NEW i \in DOMAIN s, NEW k \in s[i].downs,
           NEW e \in i .. Len(s), \A m \in i + 1 .. e - 1 : k \notin s[m].ups
    PROVE  \A m \in i + 1 .. e : k \notin s[m].downs
<1>1. Len(s) \in Nat /\ DOMAIN s = 1 .. Len(s) /\ k \in Keys
  BY SongType
<1> SUFFICES ASSUME NEW x \in i + 1 .. e, k \in s[x].downs PROVE FALSE
  OBVIOUS
<1> DEFINE D == {m \in i + 1 .. e : k \in s[m].downs}
<1>2. D \subseteq Nat /\ D # {}
  BY <1>1
<1>3. PICK m \in D : \A y \in D : m <= y
  BY <1>2, Least
<1>4. m \in i + 1 .. e /\ k \in s[m].downs
  BY <1>3
<1>5. Sounds(s, i, m - 1, k)
  <2> SUFFICES ASSUME NEW y \in i + 1 .. m - 1 PROVE k \notin s[y].ups /\ k \notin s[y].downs
    BY DEF Sounds
  <2>1. y \in i + 1 .. e - 1 /\ y \in i + 1 .. e /\ ~(m <= y)
    BY <1>1, <1>4
  <2> QED
    BY <1>3, <2>1
<1>6. m - 1 \in 0 .. Len(s) /\ i \in 1 .. m - 1 /\ m \in DOMAIN s
  BY <1>1, <1>4
<1>7. OpenAfter(s)[m - 1][k] = <<i, k>>
  BY <1>1, <1>5, <1>6, OpenIsSounding DEF OpenMeans
<1>8. OpenAfter(s)[m - 1][k] = NoGen
  BY <1>4, <1>6 DEF Compiles
<1>9. <<i, k>> # NoGen
  BY DEF NoGen
<1> QED
  BY <1>7, <1>8, <1>9

\* A song that compiles pairs up.
LEMMA CompilesPairs ==
    ASSUME NEW s \in Songs, Compiles(s)
    PROVE  Paired(s)
<1>1. Len(s) \in Nat /\ DOMAIN s = 1 .. Len(s)
  BY SongType
<1> SUFFICES ASSUME NEW i \in DOMAIN s, NEW k \in s[i].downs
             PROVE  /\ \E j \in i + 1 .. Len(s) : k \in s[j].ups
                    /\ \A m \in i + 1 .. FirstUp(s, i, k) : k \notin s[m].downs
  BY DEF Paired
<1>2. k \in Keys
  BY SongType
<1>3. \E j \in i + 1 .. Len(s) : k \in s[j].ups
  <2> SUFFICES ASSUME \A j \in i + 1 .. Len(s) : k \notin s[j].ups PROVE FALSE
    OBVIOUS
  <2>1. Len(s) \in i .. Len(s) /\ \A m \in i + 1 .. Len(s) - 1 : k \notin s[m].ups
    BY <1>1
  <2>2. \A m \in i + 1 .. Len(s) : k \notin s[m].downs
    BY <2>1, NoRepress
  <2>3. Sounds(s, i, Len(s), k)
    BY <2>2 DEF Sounds
  <2>4. OpenAfter(s)[Len(s)][k] = <<i, k>>
    BY <1>1, <1>2, <2>3, OpenIsSounding DEF OpenMeans
  <2>5. OpenAfter(s)[Len(s)][k] = NoGen
    BY <1>2 DEF Compiles
  <2> QED
    BY <2>4, <2>5 DEF NoGen
<1>4. IsFirstUp(s, i, k, FirstUp(s, i, k))
  BY <1>3, FirstUpIs
<1>5. \A m \in i + 1 .. FirstUp(s, i, k) : k \notin s[m].downs
  <2>1. FirstUp(s, i, k) \in i .. Len(s) /\ \A m \in i + 1 .. FirstUp(s, i, k) - 1 : k \notin s[m].ups
    BY <1>1, <1>4 DEF IsFirstUp
  <2> QED
    BY <2>1, NoRepress
<1> QED
  BY <1>3, <1>5

\* A song that pairs up compiles.
LEMMA PairsCompile ==
    ASSUME NEW s \in Songs, Paired(s)
    PROVE  Compiles(s)
<1>1. Len(s) \in Nat /\ DOMAIN s = 1 .. Len(s)
  BY SongType
<1>2. ASSUME NEW i \in DOMAIN s, NEW k \in s[i].downs PROVE OpenAfter(s)[i - 1][k] = NoGen
  <2>1. k \in Keys /\ i - 1 \in 0 .. Len(s)
    BY <1>1, SongType
  <2> SUFFICES ASSUME NEW j \in 1 .. i - 1, OpenAfter(s)[i - 1][k] = <<j, k>> PROVE FALSE
    BY <2>1, OpenIsSounding DEF OpenMeans
  <2>2. Sounds(s, j, i - 1, k)
    BY <2>1, OpenIsSounding DEF OpenMeans
  <2>3. j \in DOMAIN s /\ k \in s[j].downs
    BY <1>1, <2>2 DEF Sounds
  <2>4. IsFirstUp(s, j, k, FirstUp(s, j, k)) /\ \A m \in j + 1 .. FirstUp(s, j, k) : k \notin s[m].downs
    BY <2>3, FirstUpIs DEF Paired
  <2> DEFINE F == FirstUp(s, j, k)
  <2>5. F \in j + 1 .. Len(s) /\ k \in s[F].ups
    BY <2>4 DEF IsFirstUp
  <2> HIDE DEF F
  <2>6. F \notin j + 1 .. i - 1
    BY <2>2, <2>5 DEF Sounds
  <2>7. i \in j + 1 .. F
    BY <1>1, <2>5, <2>6
  <2> QED
    BY <1>2, <2>4, <2>7 DEF F
<1>3. ASSUME NEW k \in Keys PROVE OpenAfter(s)[Len(s)][k] = NoGen
  <2>1. Len(s) \in 0 .. Len(s)
    BY <1>1
  <2> SUFFICES ASSUME NEW j \in 1 .. Len(s), OpenAfter(s)[Len(s)][k] = <<j, k>> PROVE FALSE
    BY <2>1, OpenIsSounding DEF OpenMeans
  <2>2. Sounds(s, j, Len(s), k)
    BY <2>1, OpenIsSounding DEF OpenMeans
  <2> QED
    BY <1>1, <2>2 DEF Sounds, Paired
<1> QED
  BY <1>2, <1>3 DEF Compiles

\* A packet's Up owns the press that sounds before it.
LEMMA UpOwns ==
    ASSUME NEW s \in Songs, NEW j \in DOMAIN s, NEW k \in s[j].ups
    PROVE  /\ Compile(s)[j].ups[k] = OpenAfter(s)[j - 1][k]
           /\ k \in Compile(s)[j].up_mask <=> Compile(s)[j].ups[k] # NoGen
           /\ Compile(s)[j].ups[k] # NoGen => \E i \in 1 .. j - 1 : Compile(s)[j].ups[k] = <<i, k>>
           /\ \A i \in 1 .. j - 1 : Compile(s)[j].ups[k] = <<i, k>> <=> Sounds(s, i, j - 1, k)
<1>1. Compile(s)[j].ups[k] = OpenAfter(s)[j - 1][k]
  BY DEF Compile
<1>2. k \in Compile(s)[j].up_mask <=> OpenAfter(s)[j - 1][k] # NoGen
  BY DEF Compile
<1>3. j - 1 \in 0 .. Len(s) /\ k \in Keys
  BY SongType
<1> QED
  BY <1>1, <1>2, <1>3, OpenIsSounding DEF OpenMeans

\* The Up that closes the generation g is the one in frame F.
ClosedAt(s, g, F) ==
    /\ F \in g[1] + 1 .. Len(s)
    /\ g[2] \in s[F].ups
    /\ Compile(s)[F].ups[g[2]] = g
    /\ \A m \in g[1] + 1 .. F - 1 : g[2] \notin s[m].ups
    /\ \A m \in g[1] + 1 .. F : g[2] \notin s[m].downs

\* Only the first Up after a press owns it.
LEMMA OwnsFirst ==
    ASSUME NEW s \in Songs, NEW g \in Gens(s), NEW j \in DOMAIN s, g[2] \in s[j].ups,
           Compile(s)[j].ups[g[2]] = g
    PROVE  IsFirstUp(s, g[1], g[2], j)
<1>1. Len(s) \in Nat /\ DOMAIN s = 1 .. Len(s)
  BY SongType
<1>2. g = <<g[1], g[2]>> /\ g # NoGen /\ g[1] \in DOMAIN s
  BY GensType
<1>3. PICK i \in 1 .. j - 1 : g = <<i, g[2]>>
  BY <1>2, UpOwns
<1>4. g[1] = i
  BY <1>2, <1>3
<1>5. Sounds(s, g[1], j - 1, g[2])
  BY <1>2, <1>3, <1>4, UpOwns
<1> QED
  BY <1>1, <1>3, <1>4, <1>5 DEF IsFirstUp, Sounds

\* In a song that compiles, every generation has the first Up that follows
\* it (up_intent_locations).
LEMMA LocationIs ==
    ASSUME NEW s \in Songs, Compiles(s), NEW g \in Gens(s)
    PROVE  /\ UpLocations(Compile(s))[g] = FirstUp(s, g[1], g[2])
           /\ ClosedAt(s, g, UpLocations(Compile(s))[g])
<1> DEFINE F == FirstUp(s, g[1], g[2])
<1>1. Len(s) \in Nat /\ DOMAIN s = 1 .. Len(s) /\ DOMAIN Compile(s) = DOMAIN s
  BY SongType, CompileType
<1>2. g[1] \in DOMAIN s /\ g[2] \in s[g[1]].downs /\ g[2] \in Keys /\ g = <<g[1], g[2]>>
  BY GensType
<1>3. /\ \E j \in g[1] + 1 .. Len(s) : g[2] \in s[j].ups
      /\ \A m \in g[1] + 1 .. F : g[2] \notin s[m].downs
  BY <1>2, CompilesPairs DEF Paired
<1>4. IsFirstUp(s, g[1], g[2], F)
  BY <1>2, <1>3, FirstUpIs
<1>5. \A j : IsFirstUp(s, g[1], g[2], j) => j = F
  BY <1>2, FirstUpIs
<1> HIDE DEF F
<1>6. /\ F \in g[1] + 1 .. Len(s) /\ g[2] \in s[F].ups
      /\ \A m \in g[1] + 1 .. F - 1 : g[2] \notin s[m].ups
  BY <1>4 DEF IsFirstUp
<1>7. F \in DOMAIN s /\ g[1] \in 1 .. F - 1
  BY <1>1, <1>2, <1>6
<1>8. Sounds(s, g[1], F - 1, g[2])
  <2>1. \A m \in g[1] + 1 .. F - 1 : m \in g[1] + 1 .. F
    BY <1>1, <1>7
  <2> QED
    BY <1>2, <1>3, <1>6, <2>1 DEF Sounds
<1>9. Compile(s)[F].ups[g[2]] = g
  BY <1>2, <1>6, <1>7, <1>8, UpOwns
<1>10. UpLocations(Compile(s))[g] = F
  <2> DEFINE P(n) == g[2] \in DOMAIN Compile(s)[n].ups /\ Compile(s)[n].ups[g[2]] = g
  <2>1. UpLocations(Compile(s))[g] = CHOOSE n \in DOMAIN Compile(s) : P(n)
    BY DEF UpLocations, Gens
  <2>2. F \in DOMAIN Compile(s) /\ P(F)
    BY <1>1, <1>6, <1>7, <1>9, CompileType
  <2>3. \A n \in DOMAIN Compile(s) : P(n) => n = F
    <3> SUFFICES ASSUME NEW n \in DOMAIN s, P(n) PROVE n = F
      BY <1>1
    <3>1. g[2] \in s[n].ups
      BY CompileType
    <3> QED
      BY <3>1, <1>5, OwnsFirst
  <2> HIDE DEF P
  <2> QED
    BY <2>1, <2>2, <2>3
<1> QED
  BY <1>3, <1>6, <1>9, <1>10 DEF ClosedAt, F

\* Every song is paired as its author meant it.
LEMMA SongPairs ==
    ASSUME NEW s \in Songs
    PROVE  PairsAsAuthored(s)
<1> DEFINE C == Compile(s)
           Mask(j) == {k \in s[j].ups : \E i \in 1 .. j - 1 : k \in s[i].downs /\ FirstUp(s, i, k) = j}
<1>1. Compiles(s) = Paired(s)
  <2>1. Compiles(s) <=> Paired(s)
    BY CompilesPairs, PairsCompile
  <2>2. Compiles(s) \in BOOLEAN /\ Paired(s) \in BOOLEAN
    BY DEF Compiles, Paired
  <2> QED
    BY <2>1, <2>2
<1>2. ASSUME Compiles(s), NEW j \in DOMAIN s PROVE C[j].up_mask = Mask(j)
  <2>1. Len(s) \in Nat /\ DOMAIN s = 1 .. Len(s)
    BY SongType
  <2>2. C[j].up_mask \subseteq s[j].ups
    BY DEF Compile
  <2>3. ASSUME NEW k \in s[j].ups PROVE k \in C[j].up_mask <=> k \in Mask(j)
    <3>1. ASSUME k \in C[j].up_mask PROVE k \in Mask(j)
      <4>1. PICK i \in 1 .. j - 1 : Sounds(s, i, j - 1, k)
        BY <3>1, UpOwns
      <4>2. IsFirstUp(s, i, k, j) /\ i \in DOMAIN s /\ k \in s[i].downs
        BY <2>1, <4>1 DEF IsFirstUp, Sounds
      <4> QED
        BY <4>2, FirstUpIs
    <3>2. ASSUME k \in Mask(j) PROVE k \in C[j].up_mask
      <4>1. PICK i \in 1 .. j - 1 : k \in s[i].downs /\ FirstUp(s, i, k) = j
        BY <3>2
      <4>2. i \in DOMAIN s /\ j \in i + 1 .. Len(s)
        BY <2>1, <4>1
      <4>3. IsFirstUp(s, i, k, j)
        BY <4>1, <4>2, FirstUpIs
      <4>4. \A m \in i + 1 .. j : k \notin s[m].downs
        BY <1>2, <4>1, <4>2, CompilesPairs DEF Paired
      <4>5. Sounds(s, i, j - 1, k)
        <5>1. \A m \in i + 1 .. j - 1 : m \in i + 1 .. j
          BY <2>1, <4>2
        <5> QED
          BY <4>1, <4>3, <4>4, <5>1 DEF Sounds, IsFirstUp
      <4>6. C[j].ups[k] = <<i, k>> /\ <<i, k>> # NoGen
        BY <4>5, UpOwns DEF NoGen
      <4> QED
        BY <4>6, UpOwns
    <3> QED
      BY <3>1, <3>2
  <2> QED
    BY <2>2, <2>3
<1>3. ASSUME Compiles(s) PROVE \A g \in Generations(C) : UpLocations(C)[g] = FirstUp(s, g[1], g[2])
  BY <1>3, LocationIs DEF Gens
<1> QED
  BY <1>1, <1>2, <1>3 DEF PairsAsAuthored

\* PairingIsAuthored: the compiler accepts exactly the songs whose presses are
\* all closed before their key is pressed again, and pairs every press with
\* the first Up of its key (compile_runtime_intents), whatever the song.
THEOREM PairingIsAuthored == Spec => []CompiledPairs
<1>1. Inv => CompiledPairs
  BY SongPairs DEF Inv, PhaseOK, CompiledPairs
<1> QED
  BY <1>1, Invariant, PTL

----------------------------------------------------------------------------
(***************************************************************************)
(* The exact ledger: no check of the coordinator ever fails.               *)
(*                                                                         *)
(* A check compares the frame to send with the ledger, so it passes when the*)
(* ledger says of every generation exactly what its place in the song and  *)
(* the packets played so far imply, and the counters count exactly that.   *)
(***************************************************************************)
\* Where the generation g stands when the Downs of the packets before n and
\* the Ups of those before m have been played: its state follows from its
\* place, and its Up is in its packet, was orphaned or was withdrawn.
GenAt(c, s, g, n, m) ==
    LET k == g[2]
        F == Loc(s)[g]
        p == c.packets[F]
    IN /\ c.state[g] = "Scheduled" <=> g[1] >= n
       /\ c.state[g] = "Active" <=> c.active[k] = g
       /\ c.state[g] = "Cancelled" <=> c.token[k] = g
       /\ c.state[g] \in {"Active", "Cancelled"} => F >= m
       /\ c.state[g] = "Released" => F < m
       /\ c.state[g] \in {"Scheduled", "Active"} => p.ups[k] = g /\ k \in p.up_mask
       /\ c.state[g] = "Cancelled" => p.ups[k] = NoGen /\ k \in p.up_mask
       /\ c.state[g] = "DroppedExpired" => p.ups[k] = NoGen /\ k \notin p.up_mask

PlacedAt(c, s, n, m) ==
    /\ \A g \in Gens(s) : GenAt(c, s, g, n, m)
    /\ \A i \in DOMAIN s : \A k \in s[i].ups : c.packets[i].ups[k] \in {NoGen, Compile(s)[i].ups[k]}
    /\ \A k \in Keys : /\ c.active[k] # NoGen => c.active[k][2] = k
                       /\ c.token[k] # NoGen => c.token[k][2] = k

\* The counters count the generations of each state.
Counted(c) ==
    /\ c.counters.released = Cardinality(InState(c, "Released"))
    /\ c.counters.dropped_expired = Cardinality(InState(c, "DroppedExpired"))
    /\ c.counters.cancelled = Cardinality(InState(c, "Cancelled"))
    /\ c.activated = Cardinality(InState(c, "Active")) + Cardinality(InState(c, "Released"))
                         + Cardinality(InState(c, "Cancelled"))

Exact(c, s) == PlacedAt(c, s, c.cursor, c.cursor) /\ Counted(c)

\* The stream's frames release what the compiled packets release.
FrozenAs(x, s) ==
    \A i \in DOMAIN x.entries :
        /\ x.entries[i].packet = i
        /\ Ups(x.entries[i]) = Compile(s)[i].up_mask
        /\ \A k \in Ups(x.entries[i]) : x.entries[i].ups[k] = Compile(s)[i].ups[k]

ExactOK == phase \in {"simulate", "play"} => Exact(coordinator, song)

SimulationOK ==
    phase = "simulate" =>
        /\ mode = "prepared"
        /\ coordinator.packets = Compile(song)
        /\ coordinator.token = [k \in Keys |-> NoGen]
        /\ Len(stream.entries) = coordinator.cursor - 1 /\ stream.cursor = 1
        /\ coordinator.cursor <= Len(song) + 1
        /\ FrozenAs(stream, song)

ReplayOK ==
    phase = "play" /\ mode = "prepared" =>
        /\ Len(stream.entries) = Len(song)
        /\ stream.cursor = coordinator.cursor
        /\ FrozenAs(stream, song)

\* The inductive invariant of a session that is never refused.
Strong ==
    /\ ExactOK
    /\ SimulationOK
    /\ ReplayOK
    /\ NeverRefused

\* A generation and the place of its Up.
LEMMA GenPlace ==
    ASSUME NEW s \in Songs, Compiles(s), NEW g \in Gens(s)
    PROVE  /\ g[1] \in Int /\ Loc(s)[g] \in Int /\ g[1] < Loc(s)[g]
           /\ g[1] \in DOMAIN s /\ Loc(s)[g] \in DOMAIN s
           /\ g[2] \in Keys /\ g[2] \in s[g[1]].downs /\ g[2] \in s[Loc(s)[g]].ups
           /\ g = <<g[1], g[2]>> /\ g # NoGen
           /\ Compile(s)[Loc(s)[g]].ups[g[2]] = g
           /\ \A m \in g[1] + 1 .. Loc(s)[g] : g[2] \notin s[m].downs
<1>1. ClosedAt(s, g, Loc(s)[g])
  BY LocationIs DEF Loc
<1>2. /\ g[1] \in DOMAIN s /\ g[2] \in s[g[1]].downs /\ g[2] \in Keys
      /\ g = <<g[1], g[2]>> /\ g # NoGen
  BY GensType
<1>3. DOMAIN s = 1 .. Len(s) /\ Len(s) \in Nat
  BY SongType
<1> QED
  BY <1>1, <1>2, <1>3 DEF ClosedAt

\* A key sounds for one generation at a time: two of its generations that
\* are both open at packet n are the same.
LEMMA OneOpen ==
    ASSUME NEW s \in Songs, Compiles(s), NEW g \in Gens(s), NEW h \in Gens(s), g[2] = h[2],
           NEW n \in Int, g[1] < n, n <= Loc(s)[g], h[1] < n, n <= Loc(s)[h]
    PROVE  g = h
<1>1. /\ g[1] \in Int /\ Loc(s)[g] \in Int /\ g = <<g[1], g[2]>> /\ g[2] \in s[g[1]].downs
      /\ \A m \in g[1] + 1 .. Loc(s)[g] : g[2] \notin s[m].downs
  BY GenPlace
<1>2. /\ h[1] \in Int /\ Loc(s)[h] \in Int /\ h = <<h[1], h[2]>> /\ h[2] \in s[h[1]].downs
      /\ \A m \in h[1] + 1 .. Loc(s)[h] : h[2] \notin s[m].downs
  BY GenPlace
<1>3. ~(g[1] < h[1])
  <2>1. g[1] < h[1] => h[1] \in g[1] + 1 .. Loc(s)[g]
    BY <1>1, <1>2
  <2> QED
    BY <1>1, <1>2, <2>1
<1>4. ~(h[1] < g[1])
  <2>1. h[1] < g[1] => g[1] \in h[1] + 1 .. Loc(s)[h]
    BY <1>1, <1>2
  <2> QED
    BY <1>1, <1>2, <2>1
<1>5. g[1] = h[1]
  BY <1>1, <1>2, <1>3, <1>4
<1> QED
  BY <1>1, <1>2, <1>5

\* Two generations of a key do not share an Up.
LEMMA OneUp ==
    ASSUME NEW s \in Songs, Compiles(s), NEW g \in Gens(s), NEW h \in Gens(s), g[2] = h[2],
           Loc(s)[g] = Loc(s)[h]
    PROVE  g = h
BY GenPlace

\* A key pressed in packet n has no generation open there.
LEMMA NoneOpen ==
    ASSUME NEW s \in Songs, Compiles(s), NEW g \in Gens(s),
           NEW n \in Int, g[1] < n, n <= Loc(s)[g]
    PROVE  g[2] \notin s[n].downs
<1>1. /\ g[1] \in Int /\ Loc(s)[g] \in Int
      /\ \A m \in g[1] + 1 .. Loc(s)[g] : g[2] \notin s[m].downs
  BY GenPlace
<1>2. n \in g[1] + 1 .. Loc(s)[g]
  BY <1>1
<1> QED
  BY <1>1, <1>2

\* An Up the compiler gives an owner is that owner's.
LEMMA OwnerPlace ==
    ASSUME NEW s \in Songs, Compiles(s), NEW j \in DOMAIN s, NEW k \in s[j].ups,
           Compile(s)[j].ups[k] # NoGen
    PROVE  /\ Compile(s)[j].ups[k] \in Gens(s) /\ Compile(s)[j].ups[k][2] = k
           /\ Loc(s)[Compile(s)[j].ups[k]] = j
<1> DEFINE g == Compile(s)[j].ups[k]
<1>1. DOMAIN s = 1 .. Len(s) /\ Len(s) \in Nat
  BY SongType
<1>2. PICK i \in 1 .. j - 1 : g = <<i, k>> /\ Sounds(s, i, j - 1, k)
  BY UpOwns
<1>3. i \in DOMAIN s /\ k \in s[i].downs
  BY <1>1, <1>2 DEF Sounds
<1>4. g \in Gens(s) /\ g[2] = k /\ g[1] = i
  BY <1>2, <1>3, GensType
<1>5. IsFirstUp(s, g[1], g[2], j)
  BY <1>4, OwnsFirst
<1>6. FirstUp(s, g[1], g[2]) = j
  BY <1>3, <1>4, <1>5, FirstUpIs
<1>7. Loc(s)[g] = j
  BY <1>4, <1>6, LocationIs DEF Loc
<1> QED
  BY <1>4, <1>7

\* A frame of the packet at the cursor: it releases generations that end
\* there, and all that still wait for their Up.
FrameOf(c, s, f) ==
    /\ f.packet = c.cursor
    /\ \A k \in Ups(f) : f.ups[k] \in Gens(s) /\ f.ups[k][2] = k /\ Loc(s)[f.ups[k]] = c.cursor
    /\ \A g \in Gens(s) : Loc(s)[g] = c.cursor /\ c.state[g] \in {"Active", "Cancelled"} => g[2] \in Ups(f)

\* What the coordinator can say of a generation whose Up the frame sends.
LEMMA UpState ==
    ASSUME NEW s \in Songs, Compiles(s), NEW c, Fits(c, s), PlacedAt(c, s, c.cursor, c.cursor),
           NEW f, FrameOf(c, s, f), NEW k \in Ups(f)
    PROVE  LET g == f.ups[k] IN
           /\ k \in Keys /\ g \in Gens(s) /\ g[2] = k /\ g # NoGen
           /\ c.location[g] = c.cursor /\ c.cursor \in DOMAIN s
           /\ \/ c.state[g] = "Active" /\ c.active[k] = g /\ c.token[k] = NoGen
                   /\ c.packets[c.cursor].ups[k] = g
              \/ c.state[g] = "Cancelled" /\ c.token[k] = g /\ c.active[k] = NoGen /\ Invalidated(c, g)
              \/ c.state[g] = "DroppedExpired" /\ c.token[k] = NoGen /\ c.active[k] = NoGen /\ Dropped(c, g)
<1> DEFINE g == f.ups[k]
           n == c.cursor
<1>1. g \in Gens(s) /\ g[2] = k /\ Loc(s)[g] = n
  BY DEF FrameOf
<1>2. n \in Int /\ c.location = Loc(s) /\ c.state \in [Gens(s) -> Statuses]
      /\ c.active \in [Keys -> Gens(s) \cup {NoGen}] /\ c.token \in [Keys -> Gens(s) \cup {NoGen}]
  BY DEF Fits, Loc
<1> HIDE DEF g
<1>3. k \in Keys /\ g # NoGen /\ n \in DOMAIN s /\ g[1] \in Int /\ g[1] < n
  BY <1>1, GenPlace
<1>4. GenAt(c, s, g, n, n)
  BY <1>1 DEF PlacedAt
<1>5. c.active[k] # NoGen => c.active[k] = g
  <2> SUFFICES ASSUME c.active[k] # NoGen PROVE c.active[k] = g
    OBVIOUS
  <2> DEFINE h == c.active[k]
  <2>1. h \in Gens(s) /\ h[2] = k
    BY <1>2, <1>3 DEF PlacedAt
  <2> HIDE DEF h
  <2>2. GenAt(c, s, h, n, n) /\ c.active[h[2]] = h
    BY <2>1 DEF PlacedAt, h
  <2>3. c.state[h] = "Active" /\ Loc(s)[h] >= n /\ ~(h[1] >= n)
    BY <2>2 DEF GenAt
  <2>4. h[1] < n /\ n <= Loc(s)[h]
    BY <1>2, <2>1, <2>3, GenPlace
  <2>5. h = g
    BY <1>1, <1>2, <1>3, <2>1, <2>4, OneOpen
  <2> QED
    BY <2>5 DEF h
<1>6. c.token[k] # NoGen => c.token[k] = g
  <2> SUFFICES ASSUME c.token[k] # NoGen PROVE c.token[k] = g
    OBVIOUS
  <2> DEFINE h == c.token[k]
  <2>1. h \in Gens(s) /\ h[2] = k
    BY <1>2, <1>3 DEF PlacedAt
  <2> HIDE DEF h
  <2>2. GenAt(c, s, h, n, n) /\ c.token[h[2]] = h
    BY <2>1 DEF PlacedAt, h
  <2>3. c.state[h] = "Cancelled" /\ Loc(s)[h] >= n /\ ~(h[1] >= n)
    BY <2>2 DEF GenAt
  <2>4. h[1] < n /\ n <= Loc(s)[h]
    BY <1>2, <2>1, <2>3, GenPlace
  <2>5. h = g
    BY <1>1, <1>2, <1>3, <2>1, <2>4, OneOpen
  <2> QED
    BY <2>5 DEF h
<1>7. c.state[g] \in {"Active", "Cancelled", "DroppedExpired"}
  <2>1. c.state[g] # "Scheduled" /\ c.state[g] # "Released"
    BY <1>1, <1>2, <1>3, <1>4 DEF GenAt
  <2> QED
    BY <1>1, <1>2, <2>1 DEF Statuses
<1>8. c.location[g] = n
  BY <1>1, <1>2
<1>9. CASE c.state[g] = "Active"
  <2>1. c.active[k] = g /\ c.token[k] # g /\ c.packets[n].ups[k] = g
    BY <1>1, <1>4, <1>9 DEF GenAt
  <2> QED
    BY <1>1, <1>3, <1>6, <1>8, <1>9, <2>1 DEF g
<1>10. CASE c.state[g] = "Cancelled"
  <2>1. c.token[k] = g /\ c.active[k] # g /\ c.packets[n].ups[k] = NoGen /\ k \in c.packets[n].up_mask
    BY <1>1, <1>4, <1>10 DEF GenAt
  <2>2. Invalidated(c, g)
    BY <1>1, <1>8, <2>1 DEF Invalidated
  <2> QED
    BY <1>1, <1>3, <1>5, <1>8, <1>10, <2>1, <2>2 DEF g
<1>11. CASE c.state[g] = "DroppedExpired"
  <2>1. c.token[k] # g /\ c.active[k] # g /\ c.packets[n].ups[k] = NoGen /\ k \notin c.packets[n].up_mask
    BY <1>1, <1>4, <1>11 DEF GenAt
  <2>2. Dropped(c, g)
    BY <1>1, <1>8, <2>1 DEF Dropped
  <2> QED
    BY <1>1, <1>3, <1>5, <1>6, <1>8, <1>11, <2>1, <2>2 DEF g
<1> QED
  BY <1>7, <1>9, <1>10, <1>11

\* Every key a frame presses is free, and its generation still to come.
LEMMA DownState ==
    ASSUME NEW s \in Songs, Compiles(s), NEW c, Fits(c, s), PlacedAt(c, s, c.cursor, c.cursor),
           NEW f, FrameFits(f, s), f.packet = c.cursor, NEW k \in Downs(f)
    PROVE  /\ c.active[k] = NoGen /\ c.token[k] = NoGen
           /\ f.downs[k] \in Gens(s) /\ f.downs[k][1] = c.cursor /\ c.state[f.downs[k]] = "Scheduled"
<1> DEFINE n == c.cursor
<1>1. k \in Keys /\ f.downs[k] \in Gens(s) /\ f.downs[k][1] = n
  BY FrameDowns
<1>2. n \in Int /\ c.active \in [Keys -> Gens(s) \cup {NoGen}] /\ c.token \in [Keys -> Gens(s) \cup {NoGen}]
  BY DEF Fits
<1>3. k \in s[n].downs
  <2>1. f.packet = n /\ n \in DOMAIN s /\ f.downs = Compile(s)[n].downs
    BY DEF FrameFits
  <2>2. f.downs = [j \in s[n].downs |-> <<n, j>>]
    BY <2>1, CompileType
  <2> QED
    BY <2>2 DEF Downs
<1>4. ASSUME NEW h \in Gens(s), h[2] = k, c.active[k] = h \/ c.token[k] = h PROVE FALSE
  <2>1. GenAt(c, s, h, n, n)
    BY DEF PlacedAt
  <2>2. c.state[h] \in {"Active", "Cancelled"} /\ Loc(s)[h] >= n /\ ~(h[1] >= n)
    BY <1>4, <2>1 DEF GenAt
  <2>3. h[1] < n /\ n <= Loc(s)[h]
    BY <1>2, <2>2, GenPlace
  <2> QED
    BY <1>2, <1>3, <1>4, <2>3, NoneOpen
<1>5. c.active[k] = NoGen
  BY <1>1, <1>2, <1>4 DEF PlacedAt
<1>6. c.token[k] = NoGen
  BY <1>1, <1>2, <1>4 DEF PlacedAt
<1>7. c.state[f.downs[k]] = "Scheduled"
  <2> DEFINE g == f.downs[k]
  <2>1. GenAt(c, s, g, n, n)
    BY <1>1 DEF PlacedAt
  <2> HIDE DEF g
  <2>2. g[1] = n
    BY <1>1 DEF g
  <2>3. c.state[g] = "Scheduled"
    BY <1>2, <2>1, <2>2 DEF GenAt
  <2> QED
    BY <2>3 DEF g
<1> QED
  BY <1>1, <1>5, <1>6, <1>7

\* An admitted song releases a live generation no sooner than its floor
\* (validate_min_hold_and_release_gap_feasibility_ticks).
LEMMA FloorReached ==
    ASSUME NEW s \in Songs, Admits(s), NEW c, Fits(c, s), Ledger(c, s),
           NEW k \in Keys, c.active[k] # NoGen, Loc(s)[c.active[k]] = c.cursor
    PROVE  c.floor[k] <= Ticks(s[c.cursor].at)
<1> DEFINE g == c.active[k]
           at == [i \in DOMAIN s |-> Ticks(s[i].at)]
           loc == UpLocations(Compile(s))
<1>1. g \in Gens(s) /\ c.floor[k] = Ticks(s[g[1]].at) + Hold
  BY DEF Fits, Ledger
<1>2. loc[g] = c.cursor
  BY DEF Loc
<1> HIDE DEF g
<1>3. at[g[1]] + Hold <= at[loc[g]]
  <2>1. \A h \in Generations(Compile(s)) : at[h[1]] + Hold <= at[loc[h]]
    BY DEF Admits, Feasible
  <2> QED
    BY <1>1, <2>1 DEF Gens
<1>4. Compiles(s)
  BY DEF Admits
<1>5. g[1] \in DOMAIN s /\ c.cursor \in DOMAIN s
  BY <1>1, <1>2, <1>4, GenPlace DEF Loc
<1> QED
  BY <1>1, <1>2, <1>3, <1>5

\* A frame of the packet at the cursor passes the validation before it is
\* sent (validate_frozen_authored_commit).
LEMMA FrozenHolds ==
    ASSUME NEW s \in Songs, Compiles(s), NEW c, Fits(c, s), PlacedAt(c, s, c.cursor, c.cursor),
           NEW f, FrameFits(f, s), FrameOf(c, s, f)
    PROVE  Frozen(c, f)
<1>1. f.packet = c.cursor
  BY DEF FrameOf
<1>2. ASSUME NEW k \in Ups(f)
      PROVE  LET g == f.ups[k]
                 p == c.packets[f.packet]
             IN /\ c.location[g] = f.packet
                /\ \/ c.state[g] = "Active" /\ p.ups[k] = g /\ c.active[k] = g /\ c.token[k] = NoGen
                   \/ c.state[g] = "Cancelled" /\ c.token[k] = g /\ c.active[k] = NoGen /\ Invalidated(c, g)
                   \/ c.state[g] = "DroppedExpired" /\ Dropped(c, g)
  BY <1>1, UpState
<1>3. \A k \in Downs(f) : c.token[k] = NoGen
  BY <1>1, DownState
<1> QED
  BY <1>2, <1>3 DEF Frozen

\* Its Ups are committed (commit_prepared_up_intents_frozen).
LEMMA UpsAccepted ==
    ASSUME NEW s \in Songs, Admits(s), NEW c, Fits(c, s), Ledger(c, s), PlacedAt(c, s, c.cursor, c.cursor),
           NEW f, FrameFits(f, s), FrameOf(c, s, f), NEW t \in Int, f.at <= t
    PROVE  CommitUps(c, f, t).ok
<1> DEFINE live == {k \in Ups(f) : c.active[k] # NoGen}
           reconciled == {k \in Ups(f) \ live : c.token[k] = f.ups[k]}
<1>1. Compiles(s) /\ f.packet = c.cursor
  BY DEF Admits, FrameOf
<1>2. f.at = Ticks(s[c.cursor].at) /\ f.at \in Int
  BY <1>1, FrameDowns
<1>3. ASSUME NEW k \in live
      PROVE  c.active[k] = f.ups[k] /\ c.state[f.ups[k]] = "Active" /\ t >= c.floor[k]
  <2>1. c.active[k] = f.ups[k] /\ c.state[f.ups[k]] = "Active" /\ k \in Keys
    BY <1>1, UpState
  <2>2. Loc(s)[c.active[k]] = c.cursor /\ c.active[k] # NoGen
    BY <2>1 DEF FrameOf
  <2>3. c.floor[k] <= f.at /\ c.floor[k] \in Int
    BY <1>2, <2>1, <2>2, FloorReached DEF Fits
  <2> QED
    BY <1>2, <2>1, <2>3
<1>4. ASSUME NEW k \in reconciled
      PROVE  c.state[f.ups[k]] = "Cancelled" /\ Invalidated(c, f.ups[k])
  BY <1>1, UpState
<1>5. ASSUME NEW k \in Ups(f) \ (live \cup reconciled)
      PROVE  c.state[f.ups[k]] = "DroppedExpired" /\ Dropped(c, f.ups[k])
  BY <1>1, UpState
<1> HIDE DEF live, reconciled
<1> QED
  BY <1>1, <1>3, <1>4, <1>5 DEF CommitUps, Check, live, reconciled

\* Its Downs are free once the Ups are committed.
LEMMA DownsAccepted ==
    ASSUME NEW s \in Songs, Compiles(s), NEW c, Fits(c, s), PlacedAt(c, s, c.cursor, c.cursor),
           NEW f, FrameFits(f, s), f.packet = c.cursor, NEW u, UpsCommitted(c, f, u, s),
           \A g \in Over(c, f) : c.state[g] \in {"Active", "Cancelled"}
    PROVE  DownsFree(u, f)
<1> SUFFICES ASSUME NEW k \in Downs(f) PROVE u.active[k] = NoGen /\ u.state[f.downs[k]] = "Scheduled"
  BY DEF DownsFree
<1>1. c.active[k] = NoGen /\ f.downs[k] \in Gens(s) /\ c.state[f.downs[k]] = "Scheduled" /\ k \in Keys
  BY DownState, FrameDowns
<1>2. u.active = [j \in Keys |-> IF j \in LiveUps(c, f) THEN NoGen ELSE c.active[j]]
      /\ u.state = [g \in Gens(s) |-> IF g \in Over(c, f) THEN "Released" ELSE c.state[g]]
  BY DEF UpsCommitted
<1>3. f.downs[k] \notin Over(c, f)
  BY <1>1
<1> QED
  BY <1>1, <1>2, <1>3

\* A frame of the packet at the cursor is committed, played or dropped.
LEMMA CommitAccepted ==
    ASSUME NEW s \in Songs, Admits(s), NEW c, Fits(c, s), Ledger(c, s), PlacedAt(c, s, c.cursor, c.cursor),
           NEW f, FrameFits(f, s), FrameOf(c, s, f), NEW t \in Int, f.at <= t
    PROVE  /\ CommitUps(c, f, t).ok
           /\ CommitSuccess(c, f, t).ok
           /\ CommitMiss(c, f, t).ok
<1> DEFINE up == CommitUps(c, f, t)
<1>1. Compiles(s) /\ f.packet = c.cursor
  BY DEF Admits, FrameOf
<1>2. up.ok
  BY UpsAccepted
<1>3. Frozen(c, f)
  BY <1>1, FrozenHolds
<1>4. UpsCommitted(c, f, up.c, s)
  BY CommitUpsFits
<1>5. \A g \in Over(c, f) : c.state[g] \in {"Active", "Cancelled"}
  BY <1>2, UpsChecked
<1>6. DownsFree(up.c, f)
  BY <1>1, <1>4, <1>5, DownsAccepted
<1> HIDE DEF up
<1> QED
  BY <1>2, <1>3, <1>6 DEF CommitSuccess, CommitMiss, Check, up

\* The planner's plan is a frame of the packet at the cursor, and it is
\* consistent (prepare_current_authored_packet).
LEMMA PlannedFrame ==
    ASSUME NEW s \in Songs, Compiles(s), NEW c, Fits(c, s), PlacedAt(c, s, c.cursor, c.cursor),
           c.cursor \in DOMAIN s
    PROVE  FrameOf(c, s, Prepare(c)) /\ Prepare(c).ok
<1> DEFINE f == Prepare(c)
           n == c.cursor
           p == c.packets[n]
           owned == {k \in DOMAIN p.ups : p.ups[k] # NoGen}
           tokens == {k \in DOMAIN p.ups \ owned : c.token[k] # NoGen /\ c.location[c.token[k]] = n}
<1>1. /\ n \in Int /\ c.location = Loc(s) /\ c.state \in [Gens(s) -> Statuses]
      /\ c.active \in [Keys -> Gens(s) \cup {NoGen}] /\ c.token \in [Keys -> Gens(s) \cup {NoGen}]
  BY DEF Fits, Loc
<1>2. DOMAIN p.ups = s[n].ups /\ s[n].ups \subseteq Keys
  <2>1. \A i \in DOMAIN s : /\ c.packets[i].at = Ticks(s[i].at)
                            /\ DOMAIN c.packets[i].ups = s[i].ups
                            /\ c.packets[i].downs = [j \in s[i].downs |-> <<i, j>>]
    BY FitsPackets
  <2> QED
    BY <2>1, SongType
<1>3. /\ f.packet = n
      /\ f.ups = [k \in owned \cup tokens |-> IF k \in owned THEN p.ups[k] ELSE c.token[k]]
      /\ f.ok = (/\ \A k \in owned : c.active[k] = p.ups[k] /\ c.location[p.ups[k]] = n
                 /\ \A k \in tokens : Invalidated(c, c.token[k]))
  BY DEF Prepare
<1> HIDE DEF f, p
<1>4. ASSUME NEW k \in owned
      PROVE  p.ups[k] \in Gens(s) /\ p.ups[k][2] = k /\ Loc(s)[p.ups[k]] = n /\ c.active[k] = p.ups[k]
  <2> DEFINE g == p.ups[k]
  <2>1. k \in s[n].ups /\ g # NoGen
    BY <1>2
  <2>2. g = Compile(s)[n].ups[k]
    BY <2>1 DEF PlacedAt, p
  <2>3. g \in Gens(s) /\ g[2] = k /\ Loc(s)[g] = n
    BY <2>1, <2>2, OwnerPlace
  <2> HIDE DEF g
  <2>4. GenAt(c, s, g, n, n) /\ c.packets[Loc(s)[g]].ups[g[2]] = g /\ g[1] < n /\ g[1] \in Int
    BY <2>3, GenPlace DEF PlacedAt, g, p
  <2>5. c.state[g] # "Scheduled" /\ c.state[g] # "Released" /\ c.state[g] # "Cancelled"
          /\ c.state[g] # "DroppedExpired"
    BY <1>1, <2>1, <2>3, <2>4 DEF GenAt
  <2>6. c.state[g] = "Active"
    BY <1>1, <2>3, <2>5 DEF Statuses
  <2>7. c.active[k] = g
    BY <2>3, <2>4, <2>6 DEF GenAt
  <2> QED
    BY <2>3, <2>7 DEF g
<1>5. ASSUME NEW k \in tokens
      PROVE  /\ c.token[k] \in Gens(s) /\ c.token[k][2] = k /\ Loc(s)[c.token[k]] = n
             /\ Invalidated(c, c.token[k])
  <2> DEFINE g == c.token[k]
  <2>1. k \in Keys /\ g \in Gens(s) /\ g[2] = k /\ Loc(s)[g] = n
    BY <1>1, <1>2 DEF PlacedAt
  <2> HIDE DEF g
  <2>2. GenAt(c, s, g, n, n) /\ c.token[g[2]] = g
    BY <2>1 DEF PlacedAt, g
  <2>3. c.packets[Loc(s)[g]].ups[g[2]] = NoGen /\ g[2] \in c.packets[Loc(s)[g]].up_mask
    BY <2>2 DEF GenAt
  <2>4. Invalidated(c, g)
    BY <1>1, <2>3 DEF Invalidated
  <2> QED
    BY <2>1, <2>4 DEF g
<1>6. ASSUME NEW g \in Gens(s), Loc(s)[g] = n, c.state[g] \in {"Active", "Cancelled"}
      PROVE  g[2] \in Ups(f)
  <2>1. g[2] \in s[n].ups /\ g # NoGen
    BY <1>6, GenPlace
  <2>2. GenAt(c, s, g, n, n)
    BY DEF PlacedAt
  <2>3. c.state[g] = "Active" => p.ups[g[2]] = g
    BY <1>6, <2>2 DEF GenAt, p
  <2>4. c.state[g] = "Cancelled" => p.ups[g[2]] = NoGen /\ c.token[g[2]] = g
    BY <1>6, <2>2 DEF GenAt, p
  <2>5. g[2] \in owned \cup tokens
    BY <1>1, <1>2, <1>6, <2>1, <2>3, <2>4
  <2> QED
    BY <1>3, <2>5 DEF Ups
<1> HIDE DEF owned, tokens
<1>7. f.ok
  <2>1. \A k \in owned : c.active[k] = p.ups[k] /\ c.location[p.ups[k]] = n
    BY <1>1, <1>4
  <2>2. \A k \in tokens : Invalidated(c, c.token[k])
    BY <1>5
  <2> QED
    BY <1>3, <2>1, <2>2
<1>8. ASSUME NEW k \in Ups(f)
      PROVE  f.ups[k] \in Gens(s) /\ f.ups[k][2] = k /\ Loc(s)[f.ups[k]] = n
  <2>1. CASE k \in owned
    BY <1>3, <1>4, <2>1
  <2>2. CASE k \notin owned
    <3>1. k \in tokens /\ f.ups[k] = c.token[k]
      BY <1>3, <2>2 DEF Ups
    <3> QED
      BY <1>5, <3>1
  <2> QED
    BY <2>1, <2>2
<1>9. FrameOf(c, s, f)
  BY <1>3, <1>6, <1>8 DEF FrameOf
<1> QED
  BY <1>7, <1>9 DEF f

\* So is the stream's frame, whatever was cancelled since it was frozen.
LEMMA StreamFrame ==
    ASSUME NEW s \in Songs, Compiles(s), NEW c, Fits(c, s), PlacedAt(c, s, c.cursor, c.cursor),
           NEW x, FrozenAs(x, s), c.cursor \in DOMAIN x.entries, c.cursor \in DOMAIN s
    PROVE  FrameOf(c, s, x.entries[c.cursor])
<1> DEFINE n == c.cursor
           f == x.entries[n]
<1>1. f.packet = n /\ Ups(f) = Compile(s)[n].up_mask /\ \A k \in Ups(f) : f.ups[k] = Compile(s)[n].ups[k]
  BY DEF FrozenAs
<1>2. Compile(s)[n].up_mask \subseteq s[n].ups
  BY DEF Compile
<1> HIDE DEF f
<1>3. ASSUME NEW k \in Ups(f)
      PROVE  f.ups[k] \in Gens(s) /\ f.ups[k][2] = k /\ Loc(s)[f.ups[k]] = n
  <2>1. k \in s[n].ups /\ Compile(s)[n].ups[k] # NoGen
    BY <1>1, <1>2, UpOwns
  <2> QED
    BY <1>1, <2>1, OwnerPlace
<1>4. ASSUME NEW g \in Gens(s), Loc(s)[g] = n PROVE g[2] \in Ups(f)
  <2>1. g[2] \in s[n].ups /\ Compile(s)[n].ups[g[2]] = g /\ g # NoGen
    BY <1>4, GenPlace
  <2>2. g[2] \in Compile(s)[n].up_mask
    BY <2>1, UpOwns
  <2> QED
    BY <1>1, <2>2
<1> QED
  BY <1>1, <1>3, <1>4 DEF FrameOf, f

\* What a frame's Ups end: the generations waiting for their Up there.
LEMMA OverIs ==
    ASSUME NEW s \in Songs, Compiles(s), NEW c, Fits(c, s), PlacedAt(c, s, c.cursor, c.cursor),
           NEW f, FrameOf(c, s, f)
    PROVE  /\ \A k \in LiveUps(c, f) : /\ k \in Keys /\ c.active[k] = f.ups[k] /\ f.ups[k] \in Gens(s)
                                       /\ f.ups[k][2] = k /\ c.state[f.ups[k]] = "Active"
           /\ \A k \in SpentUps(c, f) : /\ k \in Keys /\ c.token[k] = f.ups[k] /\ f.ups[k] \in Gens(s)
                                        /\ f.ups[k][2] = k /\ c.state[f.ups[k]] = "Cancelled"
           /\ \A g \in Gens(s) : g \in Over(c, f) <=> /\ Loc(s)[g] = c.cursor
                                                      /\ c.state[g] \in {"Active", "Cancelled"}
           /\ Over(c, f) \subseteq Gens(s)
<1>1. ASSUME NEW k \in LiveUps(c, f)
      PROVE  /\ k \in Keys /\ c.active[k] = f.ups[k] /\ f.ups[k] \in Gens(s)
             /\ f.ups[k][2] = k /\ c.state[f.ups[k]] = "Active"
  BY UpState DEF LiveUps
<1>2. ASSUME NEW k \in SpentUps(c, f)
      PROVE  /\ k \in Keys /\ c.token[k] = f.ups[k] /\ f.ups[k] \in Gens(s)
             /\ f.ups[k][2] = k /\ c.state[f.ups[k]] = "Cancelled"
  BY UpState DEF SpentUps, LiveUps
<1>3. ASSUME NEW g \in Gens(s), Loc(s)[g] = c.cursor, c.state[g] \in {"Active", "Cancelled"}
      PROVE  g \in Over(c, f)
  <2> DEFINE k == g[2]
  <2>1. k \in Ups(f)
    BY <1>3 DEF FrameOf
  <2>2. f.ups[k] \in Gens(s) /\ f.ups[k][2] = k /\ Loc(s)[f.ups[k]] = c.cursor
    BY <2>1 DEF FrameOf
  <2>3. f.ups[k] = g
    BY <1>3, <2>2, OneUp
  <2>4. k \in LiveUps(c, f) \cup SpentUps(c, f)
    BY <1>3, <2>1, <2>3, UpState DEF LiveUps, SpentUps
  <2> QED
    BY <2>3, <2>4 DEF Over
<1>4. ASSUME NEW g \in Over(c, f)
      PROVE  g \in Gens(s) /\ Loc(s)[g] = c.cursor /\ c.state[g] \in {"Active", "Cancelled"}
  <2>1. PICK k \in LiveUps(c, f) \cup SpentUps(c, f) : g = f.ups[k]
    BY DEF Over
  <2>2. k \in Ups(f)
    BY DEF LiveUps, SpentUps
  <2> QED
    BY <1>1, <1>2, <2>1, <2>2 DEF FrameOf
<1> QED
  BY <1>1, <1>2, <1>3, <1>4

\* Committing the Ups of the packet at the cursor moves the place of the Ups.
LEMMA UpsPlaced ==
    ASSUME NEW s \in Songs, Compiles(s), NEW c, Fits(c, s), PlacedAt(c, s, c.cursor, c.cursor),
           NEW f, FrameOf(c, s, f), NEW u, UpsCommitted(c, f, u, s)
    PROVE  PlacedAt(u, s, c.cursor, c.cursor + 1)
<1> DEFINE n == c.cursor
<1>1. /\ u.packets = c.packets
      /\ u.state = [g \in Gens(s) |-> IF g \in Over(c, f) THEN "Released" ELSE c.state[g]]
      /\ u.active = [k \in Keys |-> IF k \in LiveUps(c, f) THEN NoGen ELSE c.active[k]]
      /\ u.token = [k \in Keys |-> IF k \in SpentUps(c, f) THEN NoGen ELSE c.token[k]]
      /\ n \in Int
  BY DEF UpsCommitted, Fits
<1>2. /\ \A k \in LiveUps(c, f) : c.active[k] = f.ups[k] /\ f.ups[k] \in Over(c, f)
      /\ \A k \in SpentUps(c, f) : c.token[k] = f.ups[k] /\ f.ups[k] \in Over(c, f)
      /\ \A g \in Gens(s) : g \in Over(c, f) <=> /\ Loc(s)[g] = n
                                                 /\ c.state[g] \in {"Active", "Cancelled"}
  BY OverIs DEF Over
<1>3. ASSUME NEW g \in Gens(s) PROVE GenAt(u, s, g, n, n + 1)
  <2> DEFINE k == g[2]
             F == Loc(s)[g]
  <2>1. k \in Keys /\ F \in Int /\ g[1] \in Int /\ g[1] < F /\ g # NoGen
    BY GenPlace
  <2>2. GenAt(c, s, g, n, n)
    BY DEF PlacedAt
  <2>3. CASE g \in Over(c, f)
    <3>1. F = n /\ c.state[g] \in {"Active", "Cancelled"} /\ u.state[g] = "Released"
      BY <1>1, <1>2, <2>3
    <3>2. u.active[k] # g
      <4>1. CASE c.active[k] = g
        <5>1. c.state[g] = "Active"
          BY <2>2, <4>1 DEF GenAt
        <5>2. k \in LiveUps(c, f)
          <6>1. PICK j \in LiveUps(c, f) \cup SpentUps(c, f) : g = f.ups[j]
            BY <2>3 DEF Over
          <6>2. j = k
            BY <6>1, OverIs
          <6>3. j \notin SpentUps(c, f)
            BY <5>1, <6>1, OverIs
          <6> QED
            BY <6>1, <6>2, <6>3
        <5> QED
          BY <1>1, <2>1, <5>2
      <4>2. CASE c.active[k] # g
        BY <1>1, <2>1, <4>2
      <4> QED
        BY <4>1, <4>2
    <3>3. u.token[k] # g
      <4>1. CASE c.token[k] = g
        <5>1. c.state[g] = "Cancelled"
          BY <2>2, <4>1 DEF GenAt
        <5>2. k \in SpentUps(c, f)
          <6>1. PICK j \in LiveUps(c, f) \cup SpentUps(c, f) : g = f.ups[j]
            BY <2>3 DEF Over
          <6>2. j = k
            BY <6>1, OverIs
          <6>3. j \notin LiveUps(c, f)
            BY <5>1, <6>1, OverIs
          <6> QED
            BY <6>1, <6>2, <6>3
        <5> QED
          BY <1>1, <2>1, <5>2
      <4>2. CASE c.token[k] # g
        BY <1>1, <2>1, <4>2
      <4> QED
        BY <4>1, <4>2
    <3> QED
      BY <1>1, <2>1, <3>1, <3>2, <3>3 DEF GenAt
  <2>4. CASE g \notin Over(c, f)
    <3>1. u.state[g] = c.state[g]
      BY <1>1, <2>4
    <3>2. u.active[k] = g <=> c.active[k] = g
      BY <1>1, <1>2, <2>1, <2>4
    <3>3. u.token[k] = g <=> c.token[k] = g
      BY <1>1, <1>2, <2>1, <2>4
    <3>4. c.state[g] \in {"Active", "Cancelled"} => F >= n + 1
      <4>1. c.state[g] \in {"Active", "Cancelled"} => F >= n /\ F # n
        BY <1>2, <2>2, <2>4 DEF GenAt
      <4> QED
        BY <1>1, <2>1, <4>1
    <3>5. c.state[g] = "Released" => F < n + 1
      <4>1. c.state[g] = "Released" => F < n
        BY <2>2 DEF GenAt
      <4> QED
        BY <1>1, <2>1, <4>1
    <3> QED
      BY <1>1, <2>2, <3>1, <3>2, <3>3, <3>4, <3>5 DEF GenAt
  <2> QED
    BY <2>3, <2>4
<1>4. \A i \in DOMAIN s : \A k \in s[i].ups : u.packets[i].ups[k] \in {NoGen, Compile(s)[i].ups[k]}
  BY <1>1 DEF PlacedAt
<1>5. \A k \in Keys : /\ u.active[k] # NoGen => u.active[k][2] = k
                      /\ u.token[k] # NoGen => u.token[k][2] = k
  BY <1>1 DEF PlacedAt
<1> QED
  BY <1>3, <1>4, <1>5 DEF PlacedAt

\* The generations of a frame are those of its packet.
LEMMA PressedIs ==
    ASSUME NEW s \in Songs, NEW f, FrameFits(f, s)
    PROVE  \A g \in Gens(s) : g \in Pressed(f) <=> g[1] = f.packet
<1> DEFINE n == f.packet
<1>1. n \in DOMAIN s /\ f.downs = Compile(s)[n].downs
  BY DEF FrameFits
<1>2. f.downs = [k \in s[n].downs |-> <<n, k>>]
  BY <1>1, CompileType
<1>3. Pressed(f) = {<<n, k>> : k \in s[n].downs}
  <2>1. DOMAIN f.downs = s[n].downs /\ \A k \in s[n].downs : f.downs[k] = <<n, k>>
    BY <1>2
  <2> QED
    BY <2>1 DEF Pressed, Downs
<1> HIDE DEF n
<1>4. \A g \in Gens(s) : g = <<g[1], g[2]>> /\ g[2] \in s[g[1]].downs
  BY GensType
<1> QED
  BY <1>3, <1>4 DEF n

\* Playing its Downs moves the place of the Downs.
LEMMA DownsPlaced ==
    ASSUME NEW s \in Songs, Compiles(s), NEW f, FrameFits(f, s), NEW n \in Int, f.packet = n,
           NEW u, Fits(u, s), PlacedAt(u, s, n, n + 1), DownsFree(u, f),
           \A k \in Downs(f) : u.token[k] = NoGen,
           NEW v, DownsCommitted(u, f, v, s)
    PROVE  PlacedAt(v, s, n + 1, n + 1)
<1>1. /\ v.packets = u.packets /\ v.token = u.token
      /\ v.state = [g \in Gens(s) |-> IF g \in Pressed(f) THEN "Active" ELSE u.state[g]]
      /\ v.active = [k \in Keys |-> IF k \in Downs(f) THEN f.downs[k] ELSE u.active[k]]
  BY DEF DownsCommitted
<1>2. \A g \in Gens(s) : g \in Pressed(f) <=> g[1] = n
  BY PressedIs
<1>3. \A k \in Downs(f) : /\ u.active[k] = NoGen /\ k \in Keys /\ f.downs[k] \in Gens(s)
                          /\ f.downs[k] # NoGen /\ f.downs[k][1] = n /\ f.downs[k][2] = k
  BY FrameDowns DEF DownsFree
<1>4. ASSUME NEW g \in Gens(s) PROVE GenAt(v, s, g, n + 1, n + 1)
  <2> DEFINE k == g[2]
             F == Loc(s)[g]
  <2>1. k \in Keys /\ F \in Int /\ g[1] \in Int /\ g[1] < F /\ g # NoGen /\ g = <<g[1], g[2]>>
    BY GenPlace
  <2>2. GenAt(u, s, g, n, n + 1)
    BY DEF PlacedAt
  <2>3. CASE g \in Pressed(f)
    <3>1. PICK j \in Downs(f) : g = f.downs[j]
      BY <2>3 DEF Pressed
    <3>2. k \in Downs(f) /\ f.downs[k] = g
      BY <1>3, <3>1
    <3>3. v.state[g] = "Active" /\ v.active[k] = g /\ v.token[k] # g
      BY <1>1, <2>1, <2>3, <3>2
    <3>4. u.state[g] = "Scheduled" /\ g[1] = n
      BY <1>2, <2>3, <3>2 DEF DownsFree
    <3> QED
      BY <1>1, <2>1, <2>2, <3>3, <3>4 DEF GenAt
  <2>4. CASE g \notin Pressed(f)
    <3>1. v.state[g] = u.state[g] /\ g[1] # n
      BY <1>1, <1>2, <2>4
    <3>2. v.active[k] = g <=> u.active[k] = g
      <4>1. CASE k \in Downs(f)
        <5>1. v.active[k] \in Pressed(f) /\ u.active[k] = NoGen
          BY <1>1, <1>3, <2>1, <4>1 DEF Pressed
        <5> QED
          BY <2>1, <2>4, <5>1
      <4>2. CASE k \notin Downs(f)
        BY <1>1, <2>1, <4>2
      <4> QED
        BY <4>1, <4>2
    <3>3. g[1] >= n <=> g[1] >= n + 1
      BY <2>1, <3>1
    <3> QED
      BY <1>1, <2>2, <3>1, <3>2, <3>3 DEF GenAt
  <2> QED
    BY <2>3, <2>4
<1>5. \A i \in DOMAIN s : \A k \in s[i].ups : v.packets[i].ups[k] \in {NoGen, Compile(s)[i].ups[k]}
  BY <1>1 DEF PlacedAt
<1>6. ASSUME NEW k \in Keys
      PROVE  /\ v.active[k] # NoGen => v.active[k][2] = k
             /\ v.token[k] # NoGen => v.token[k][2] = k
  <2>1. /\ u.active[k] # NoGen => u.active[k][2] = k
        /\ u.token[k] # NoGen => u.token[k][2] = k
    BY DEF PlacedAt
  <2>2. CASE k \in Downs(f)
    BY <1>1, <1>3, <2>1, <2>2
  <2>3. CASE k \notin Downs(f)
    BY <1>1, <2>1, <2>3
  <2> QED
    BY <2>2, <2>3
<1> QED
  BY <1>4, <1>5, <1>6 DEF PlacedAt

\* A packet that presses nothing and ends nothing only moves the cursor.
LEMMA CursorPlaced ==
    ASSUME NEW s \in Songs, Compiles(s), NEW n \in Int, NEW c, PlacedAt(c, s, n, n),
           \A g \in Gens(s) : g[1] # n /\ (Loc(s)[g] = n => c.state[g] \notin {"Active", "Cancelled"}),
           NEW v, CursorMoved(c, v, s)
    PROVE  PlacedAt(v, s, n + 1, n + 1)
<1>1. /\ v.packets = c.packets /\ v.token = c.token /\ v.state = c.state /\ v.active = c.active
  BY DEF CursorMoved
<1>2. ASSUME NEW g \in Gens(s) PROVE GenAt(v, s, g, n + 1, n + 1)
  <2>1. GenAt(c, s, g, n, n) /\ g[1] \in Int /\ Loc(s)[g] \in Int
    BY GenPlace DEF PlacedAt
  <2>2. g[1] >= n <=> g[1] >= n + 1
    BY <2>1
  <2>3. c.state[g] \in {"Active", "Cancelled"} => Loc(s)[g] >= n + 1
    <3>1. c.state[g] \in {"Active", "Cancelled"} => Loc(s)[g] >= n /\ Loc(s)[g] # n
      BY <2>1 DEF GenAt
    <3> QED
      BY <2>1, <3>1
  <2>4. c.state[g] = "Released" => Loc(s)[g] < n + 1
    <3>1. c.state[g] = "Released" => Loc(s)[g] < n
      BY <2>1 DEF GenAt
    <3> QED
      BY <2>1, <3>1
  <2> QED
    BY <1>1, <2>1, <2>2, <2>3, <2>4 DEF GenAt
<1> QED
  BY <1>1, <1>2 DEF PlacedAt

\* What taking Ups out of a packet leaves of the others.
LEMMA PacketsWithdrawn ==
    ASSUME NEW p, NEW q, NEW keys, PacketFits(p, q)
    PROVE  /\ Orphaned(p, keys).up_mask = p.up_mask
           /\ Withdrawn(p, keys).up_mask = p.up_mask \ keys
           /\ \A k \in DOMAIN p.ups : Orphaned(p, keys).ups[k] = IF k \in keys THEN NoGen ELSE p.ups[k]
           /\ Withdrawn(p, keys).ups = Orphaned(p, keys).ups
<1> DEFINE ups == [j \in DOMAIN p.ups |-> IF j \in keys THEN NoGen ELSE p.ups[j]]
<1>1. Orphaned(p, keys) = [at |-> q.at, ups |-> ups, up_mask |-> p.up_mask, downs |-> q.downs]
  BY DEF Orphaned, PacketFits
<1> HIDE DEF ups
<1>2. Withdrawn(p, keys) = [at |-> q.at, ups |-> ups, up_mask |-> p.up_mask \ keys, downs |-> q.downs]
  BY <1>1 DEF Withdrawn
<1>3. /\ Orphaned(p, keys).ups = ups /\ Orphaned(p, keys).up_mask = p.up_mask
      /\ Withdrawn(p, keys).ups = ups /\ Withdrawn(p, keys).up_mask = p.up_mask \ keys
  BY <1>1, <1>2
<1> QED
  BY <1>3 DEF ups

\* The packet of a generation's Up in a coordinator of the song.
LEMMA UpSlot ==
    ASSUME NEW s \in Songs, Compiles(s), NEW c, Fits(c, s), NEW i \in DOMAIN s
    PROVE  PacketFits(c.packets[i], Compile(s)[i]) /\ DOMAIN c.packets[i].ups = s[i].ups
<1>1. PacketFits(c.packets[i], Compile(s)[i])
  BY DEF Fits
<1>2. DOMAIN Compile(s)[i].ups = s[i].ups
  BY CompileType
<1> QED
  BY <1>1, <1>2 DEF PacketFits

\* Dropping its Downs moves the place of the Downs, and their Ups are gone.
LEMMA DropPlaced ==
    ASSUME NEW s \in Songs, Compiles(s), NEW f, FrameFits(f, s), NEW n \in Int, f.packet = n,
           NEW u, Fits(u, s), PlacedAt(u, s, n, n + 1), DownsFree(u, f),
           NEW v, DownsDropped(u, f, v, s)
    PROVE  PlacedAt(v, s, n + 1, n + 1)
<1> DEFINE late(i) == {k \in Downs(f) : Loc(s)[f.downs[k]] = i}
<1>1. /\ v.packets = [i \in DOMAIN s |-> Withdrawn(u.packets[i], late(i))]
      /\ v.state = [g \in Gens(s) |-> IF g \in Pressed(f) THEN "DroppedExpired" ELSE u.state[g]]
      /\ v.active = u.active /\ v.token = u.token
  BY DEF DownsDropped
<1>2. \A g \in Gens(s) : g \in Pressed(f) <=> g[1] = n
  BY PressedIs
<1>3. \A k \in Downs(f) : /\ k \in Keys /\ f.downs[k] \in Gens(s)
                          /\ f.downs[k][1] = n /\ f.downs[k][2] = k
                          /\ u.state[f.downs[k]] = "Scheduled"
  BY FrameDowns DEF DownsFree
<1>4. ASSUME NEW i \in DOMAIN s
      PROVE  /\ v.packets[i].up_mask = u.packets[i].up_mask \ late(i)
             /\ \A k \in s[i].ups : v.packets[i].ups[k] = IF k \in late(i) THEN NoGen ELSE u.packets[i].ups[k]
  <2>1. PacketFits(u.packets[i], Compile(s)[i]) /\ DOMAIN u.packets[i].ups = s[i].ups
    BY UpSlot
  <2> DEFINE p == u.packets[i]
             L == late(i)
  <2>2. v.packets[i] = Withdrawn(p, L)
    BY <1>1
  <2> HIDE DEF late, p, L
  <2>3. PacketFits(p, Compile(s)[i])
    BY <2>1 DEF p
  <2>4. Withdrawn(p, L).up_mask = p.up_mask \ L
    BY <2>3, PacketsWithdrawn
  <2>5. \A k \in DOMAIN p.ups : Withdrawn(p, L).ups[k] = IF k \in L THEN NoGen ELSE p.ups[k]
    <3>1. \A k \in DOMAIN p.ups : Orphaned(p, L).ups[k] = IF k \in L THEN NoGen ELSE p.ups[k]
      BY <2>3, PacketsWithdrawn
    <3>2. Withdrawn(p, L).ups = Orphaned(p, L).ups
      BY <2>3, PacketsWithdrawn
    <3> QED
      BY <3>1, <3>2
  <2> QED
    BY <2>1, <2>2, <2>4, <2>5 DEF p, L
<1>5. ASSUME NEW g \in Gens(s) PROVE g[2] \in late(Loc(s)[g]) <=> g \in Pressed(f)
  <2>1. ASSUME g[2] \in late(Loc(s)[g]) PROVE g \in Pressed(f)
    <3> DEFINE h == f.downs[g[2]]
    <3>1. h \in Gens(s) /\ h[2] = g[2] /\ Loc(s)[h] = Loc(s)[g] /\ h \in Pressed(f)
      BY <1>3, <2>1 DEF Pressed
    <3>2. h = g
      BY <3>1, OneUp
    <3> QED
      BY <3>1, <3>2
  <2>2. ASSUME g \in Pressed(f) PROVE g[2] \in late(Loc(s)[g])
    <3>1. PICK j \in Downs(f) : g = f.downs[j]
      BY <2>2 DEF Pressed
    <3>2. j = g[2]
      BY <1>3, <3>1
    <3> QED
      BY <3>1, <3>2
  <2> QED
    BY <2>1, <2>2
<1> HIDE DEF late
<1>6. ASSUME NEW g \in Gens(s) PROVE GenAt(v, s, g, n + 1, n + 1)
  <2> DEFINE k == g[2]
             F == Loc(s)[g]
  <2>1. /\ k \in Keys /\ F \in Int /\ g[1] \in Int /\ g[1] < F /\ g # NoGen
        /\ F \in DOMAIN s /\ k \in s[F].ups
    BY GenPlace
  <2>2. GenAt(u, s, g, n, n + 1)
    BY DEF PlacedAt
  <2>3. CASE g \in Pressed(f)
    <3>1. v.packets[F].ups[k] = NoGen /\ k \notin v.packets[F].up_mask
      BY <1>4, <1>5, <2>1, <2>3
    <3>2. v.state[g] = "DroppedExpired" /\ g[1] = n
      BY <1>1, <1>2, <2>3
    <3>3. u.state[g] = "Scheduled"
      BY <1>3, <2>3 DEF Pressed
    <3>4. v.active[k] # g /\ v.token[k] # g
      BY <1>1, <2>2, <3>3 DEF GenAt
    <3> QED
      BY <2>1, <3>1, <3>2, <3>4 DEF GenAt
  <2>4. CASE g \notin Pressed(f)
    <3>1. v.state[g] = u.state[g] /\ g[1] # n
      BY <1>1, <1>2, <2>4
    <3>2. v.packets[F].ups[k] = u.packets[F].ups[k] /\ (k \in v.packets[F].up_mask <=> k \in u.packets[F].up_mask)
      BY <1>4, <1>5, <2>1, <2>4
    <3>3. g[1] >= n <=> g[1] >= n + 1
      BY <2>1, <3>1
    <3> QED
      BY <1>1, <2>2, <3>1, <3>2, <3>3 DEF GenAt
  <2> QED
    BY <2>3, <2>4
<1>7. ASSUME NEW i \in DOMAIN s, NEW k \in s[i].ups
      PROVE  v.packets[i].ups[k] \in {NoGen, Compile(s)[i].ups[k]}
  BY <1>4 DEF PlacedAt
<1>8. \A k \in Keys : /\ v.active[k] # NoGen => v.active[k][2] = k
                      /\ v.token[k] # NoGen => v.token[k][2] = k
  BY <1>1 DEF PlacedAt
<1> QED
  BY <1>6, <1>7, <1>8 DEF PlacedAt

\* The live generations are the active ones.
LEMMA LiveIs ==
    ASSUME NEW s \in Songs, Compiles(s), NEW c, Fits(c, s), NEW n, NEW m, PlacedAt(c, s, n, m)
    PROVE  /\ LiveGens(c) = InState(c, "Active")
           /\ \A g \in Gens(s) : g \in LiveGens(c) <=> g[2] \in Live(c) /\ c.active[g[2]] = g
           /\ \A k \in Live(c) : /\ k \in Keys /\ c.active[k] \in Gens(s) /\ c.active[k][2] = k
                                 /\ c.state[c.active[k]] = "Active"
<1>1. c.active \in [Keys -> Gens(s) \cup {NoGen}] /\ DOMAIN c.state = Gens(s)
  BY DEF Fits
<1>2. ASSUME NEW k \in Live(c)
      PROVE  /\ k \in Keys /\ c.active[k] \in Gens(s) /\ c.active[k][2] = k
             /\ c.state[c.active[k]] = "Active"
  <2>1. k \in Keys /\ c.active[k] \in Gens(s) /\ c.active[k][2] = k
    BY <1>1 DEF Live, PlacedAt
  <2>2. GenAt(c, s, c.active[k], n, m)
    BY <2>1 DEF PlacedAt
  <2> QED
    BY <2>1, <2>2 DEF GenAt
<1>3. ASSUME NEW g \in Gens(s), c.state[g] = "Active" PROVE g[2] \in Live(c) /\ c.active[g[2]] = g
  <2>1. GenAt(c, s, g, n, m) /\ g[2] \in Keys /\ g # NoGen
    BY GensType DEF PlacedAt
  <2>2. c.active[g[2]] = g
    BY <1>3, <2>1 DEF GenAt
  <2> QED
    BY <2>1, <2>2 DEF Live
<1>4. \A g \in Gens(s) : g \in LiveGens(c) <=> g[2] \in Live(c) /\ c.active[g[2]] = g
  BY <1>2 DEF LiveGens
<1>5. LiveGens(c) = InState(c, "Active")
  BY <1>1, <1>2, <1>3 DEF LiveGens, InState
<1> QED
  BY <1>2, <1>4, <1>5

\* A pause orphans the Ups of what it cancels and leaves a token for each.
LEMMA CancelPlaced ==
    ASSUME NEW s \in Songs, Compiles(s), NEW c, Fits(c, s), NEW n \in Int, PlacedAt(c, s, n, n),
           NEW v, LiveCancelled(c, v, s)
    PROVE  PlacedAt(v, s, n, n)
<1> DEFINE held(i) == {k \in Live(c) : Loc(s)[c.active[k]] = i}
<1>1. /\ v.packets = [i \in DOMAIN s |-> Orphaned(c.packets[i], held(i))]
      /\ v.state = [g \in Gens(s) |-> IF g \in LiveGens(c) THEN "Cancelled" ELSE c.state[g]]
      /\ v.active = [k \in Keys |-> NoGen]
      /\ v.token = [k \in Keys |-> IF k \in Live(c) THEN c.active[k] ELSE c.token[k]]
  BY DEF LiveCancelled
<1>2. /\ LiveGens(c) = InState(c, "Active")
      /\ \A g \in Gens(s) : g \in LiveGens(c) <=> g[2] \in Live(c) /\ c.active[g[2]] = g
      /\ \A k \in Live(c) : k \in Keys /\ c.active[k] \in Gens(s) /\ c.active[k][2] = k
  BY LiveIs
<1>3. ASSUME NEW i \in DOMAIN s
      PROVE  /\ v.packets[i].up_mask = c.packets[i].up_mask
             /\ \A k \in s[i].ups : v.packets[i].ups[k] = IF k \in held(i) THEN NoGen ELSE c.packets[i].ups[k]
  <2>1. PacketFits(c.packets[i], Compile(s)[i]) /\ DOMAIN c.packets[i].ups = s[i].ups
    BY UpSlot
  <2>2. v.packets[i] = Orphaned(c.packets[i], held(i))
    BY <1>1
  <2> HIDE DEF held
  <2> QED
    BY <2>1, <2>2, PacketsWithdrawn
<1>4. ASSUME NEW g \in Gens(s) PROVE g[2] \in held(Loc(s)[g]) <=> g \in LiveGens(c)
  <2>1. ASSUME g[2] \in held(Loc(s)[g]) PROVE g \in LiveGens(c)
    <3> DEFINE h == c.active[g[2]]
    <3>1. h \in Gens(s) /\ h[2] = g[2] /\ Loc(s)[h] = Loc(s)[g] /\ h \in LiveGens(c)
      BY <1>2, <2>1 DEF LiveGens
    <3>2. h = g
      BY <3>1, OneUp
    <3> QED
      BY <3>1, <3>2
  <2>2. ASSUME g \in LiveGens(c) PROVE g[2] \in held(Loc(s)[g])
    BY <1>2, <2>2
  <2> QED
    BY <2>1, <2>2
<1> HIDE DEF held
<1>5. ASSUME NEW g \in Gens(s) PROVE GenAt(v, s, g, n, n)
  <2> DEFINE k == g[2]
             F == Loc(s)[g]
  <2>1. /\ k \in Keys /\ F \in Int /\ g[1] \in Int /\ g[1] < F /\ g # NoGen
        /\ F \in DOMAIN s /\ k \in s[F].ups
    BY GenPlace
  <2>2. GenAt(c, s, g, n, n)
    BY DEF PlacedAt
  <2>3. DOMAIN c.state = Gens(s)
    BY DEF Fits
  <2>4. CASE g \in LiveGens(c)
    <3>1. v.packets[F].ups[k] = NoGen /\ (k \in v.packets[F].up_mask <=> k \in c.packets[F].up_mask)
      BY <1>3, <1>4, <2>1, <2>4
    <3>2. v.state[g] = "Cancelled" /\ c.state[g] = "Active" /\ v.token[k] = g /\ v.active[k] # g
      BY <1>1, <1>2, <2>1, <2>3, <2>4 DEF InState
    <3> QED
      BY <2>1, <2>2, <3>1, <3>2 DEF GenAt
  <2>5. CASE g \notin LiveGens(c)
    <3>1. v.state[g] = c.state[g] /\ c.state[g] # "Active" /\ v.active[k] # g
      BY <1>1, <1>2, <2>1, <2>3, <2>5 DEF InState
    <3>2. v.packets[F].ups[k] = c.packets[F].ups[k] /\ (k \in v.packets[F].up_mask <=> k \in c.packets[F].up_mask)
      BY <1>3, <1>4, <2>1, <2>5
    <3>3. v.token[k] = g <=> c.token[k] = g
      <4>1. CASE k \in Live(c)
        <5>1. v.token[k] # g
          BY <1>1, <1>2, <2>1, <2>5, <4>1
        <5>2. c.token[k] # g
          <6> SUFFICES ASSUME c.token[k] = g PROVE FALSE
            OBVIOUS
          <6> DEFINE h == c.active[k]
          <6>1. c.state[g] = "Cancelled" /\ F >= n /\ ~(g[1] >= n)
            BY <2>2 DEF GenAt
          <6>2. h \in Gens(s) /\ h[2] = k /\ c.active[h[2]] = h
            BY <1>2, <4>1
          <6> HIDE DEF h
          <6>3. GenAt(c, s, h, n, n)
            BY <6>2 DEF PlacedAt
          <6>4. c.state[h] = "Active" /\ Loc(s)[h] >= n /\ ~(h[1] >= n)
            BY <6>2, <6>3 DEF GenAt
          <6>5. h[1] \in Int /\ Loc(s)[h] \in Int
            BY <6>2, GenPlace
          <6>6. g = h
            BY <2>1, <6>1, <6>2, <6>4, <6>5, OneOpen
          <6> QED
            BY <6>1, <6>4, <6>6
        <5> QED
          BY <5>1, <5>2
      <4>2. CASE k \notin Live(c)
        BY <1>1, <2>1, <4>2
      <4> QED
        BY <4>1, <4>2
    <3> QED
      BY <1>1, <2>1, <2>2, <3>1, <3>2, <3>3 DEF GenAt
  <2> QED
    BY <2>4, <2>5
<1>6. ASSUME NEW i \in DOMAIN s, NEW k \in s[i].ups
      PROVE  v.packets[i].ups[k] \in {NoGen, Compile(s)[i].ups[k]}
  BY <1>3 DEF PlacedAt
<1>7. ASSUME NEW k \in Keys
      PROVE  /\ v.active[k] # NoGen => v.active[k][2] = k
             /\ v.token[k] # NoGen => v.token[k][2] = k
  <2>1. v.active[k] = NoGen
    BY <1>1
  <2>2. v.token[k] # NoGen => v.token[k][2] = k
    <3>1. CASE k \in Live(c)
      BY <1>1, <1>2, <3>1
    <3>2. CASE k \notin Live(c)
      BY <1>1, <3>2 DEF PlacedAt
    <3> QED
      BY <3>1, <3>2
  <2> QED
    BY <2>1, <2>2
<1> QED
  BY <1>5, <1>6, <1>7 DEF PlacedAt

\* A new coordinator has every generation in place.
LEMMA NewPlaced ==
    ASSUME NEW s \in Songs, Compiles(s)
    PROVE  PlacedAt(NewCoordinator(Compile(s)), s, 1, 1)
<1> DEFINE c == NewCoordinator(Compile(s))
<1>1. /\ c.packets = Compile(s)
      /\ c.state = [g \in Gens(s) |-> "Scheduled"]
      /\ c.active = [k \in Keys |-> NoGen] /\ c.token = [k \in Keys |-> NoGen]
  BY DEF NewCoordinator, Gens
<1> HIDE DEF c
<1>2. ASSUME NEW g \in Gens(s) PROVE GenAt(c, s, g, 1, 1)
  <2>1. /\ g[2] \in Keys /\ g[1] \in DOMAIN s /\ Loc(s)[g] \in DOMAIN s /\ g # NoGen
        /\ g[2] \in s[Loc(s)[g]].ups /\ Compile(s)[Loc(s)[g]].ups[g[2]] = g
    BY GenPlace
  <2>2. g[1] >= 1
    BY <2>1, SongType
  <2>3. g[2] \in Compile(s)[Loc(s)[g]].up_mask
    BY <2>1, UpOwns
  <2> QED
    BY <1>1, <2>1, <2>2, <2>3 DEF GenAt
<1>3. PlacedAt(c, s, 1, 1)
  BY <1>1, <1>2 DEF PlacedAt
<1> QED
  BY <1>3 DEF c

\* The generations of a state are finitely many.
LEMMA StatesCounted ==
    ASSUME NEW s \in Songs, NEW c, Fits(c, s), NEW st
    PROVE  /\ InState(c, st) \subseteq Gens(s) /\ IsFiniteSet(InState(c, st))
           /\ Cardinality(InState(c, st)) \in Nat
<1>1. DOMAIN c.state = Gens(s)
  BY DEF Fits
<1>2. InState(c, st) \subseteq Gens(s)
  BY <1>1 DEF InState
<1>3. IsFiniteSet(InState(c, st))
  BY <1>2, GensFinite, FS_Subset
<1> QED
  BY <1>2, <1>3, FS_CardinalityType

\* Counting a disjoint union.
LEMMA Joined ==
    ASSUME NEW A, NEW B, IsFiniteSet(A), IsFiniteSet(B), A \cap B = {}
    PROVE  /\ Cardinality(A \cup B) = Cardinality(A) + Cardinality(B) /\ IsFiniteSet(A \cup B)
           /\ Cardinality(A) \in Nat /\ Cardinality(B) \in Nat
<1>1. Cardinality(A) \in Nat /\ Cardinality(B) \in Nat /\ Cardinality({}) = 0
  BY FS_CardinalityType, FS_EmptySet
<1>2. IsFiniteSet(A \cup B) /\ Cardinality(A \cup B) = Cardinality(A) + Cardinality(B) - Cardinality({})
  BY FS_Union
<1> DEFINE a == Cardinality(A)
           b == Cardinality(B)
           n == Cardinality(A \cup B)
           z == Cardinality({})
<1>3. a \in Nat /\ b \in Nat /\ z = 0 /\ n = a + b - z
  BY <1>1, <1>2
<1> HIDE DEF a, b, n, z
<1>4. n = a + b
  BY <1>3
<1> QED
  BY <1>1, <1>2, <1>4 DEF a, b, n

\* Counting what is left of a set.
LEMMA Removed ==
    ASSUME NEW A, NEW B, IsFiniteSet(A), B \subseteq A
    PROVE  /\ Cardinality(A \ B) = Cardinality(A) - Cardinality(B)
           /\ IsFiniteSet(B) /\ Cardinality(B) \in Nat /\ Cardinality(A) \in Nat
<1>1. IsFiniteSet(B)
  BY FS_Subset
<1>2. Cardinality(A \ B) = Cardinality(A) - Cardinality(A \cap B)
  BY FS_Difference
<1>3. A \cap B = B
  OBVIOUS
<1> QED
  BY <1>1, <1>2, <1>3, FS_CardinalityType

\* Generations of different keys are different.
LEMMA KeyImage ==
    ASSUME NEW S, S \subseteq Keys, NEW h, \A k \in S : h[k][2] = k
    PROVE  Cardinality({h[k] : k \in S}) = Cardinality(S)
<1> DEFINE T == {h[k] : k \in S}
           m == [k \in S |-> h[k]]
<1>1. m \in [S -> T] /\ \A k \in S : m[k] = h[k]
  OBVIOUS
<1>2. \A t \in T : \E k \in S : t = h[k]
  OBVIOUS
<1> HIDE DEF T, m
<1>3. m \in Bijection(S, T)
  BY <1>1, <1>2 DEF Bijection, Injection, Surjection, IsInjective
<1>4. IsFiniteSet(S)
  BY KeysCounted
<1> QED
  BY <1>3, <1>4, FS_Bijection DEF ExistsBijection, T

\* Releasing keeps the counters exact.
LEMMA UpsCountedExactly ==
    ASSUME NEW s \in Songs, Compiles(s), NEW c, Fits(c, s), PlacedAt(c, s, c.cursor, c.cursor), Counted(c),
           NEW f, FrameFits(f, s), FrameOf(c, s, f), NEW u, UpsCommitted(c, f, u, s)
    PROVE  Counted(u)
<1> DEFINE A == InState(c, "Active")
           R == InState(c, "Released")
           C == InState(c, "Cancelled")
           L == {f.ups[k] : k \in LiveUps(c, f)}
           S == {f.ups[k] : k \in SpentUps(c, f)}
           O == Over(c, f)
<1>1. /\ DOMAIN c.state = Gens(s) /\ c.counters \in [released : Int, dropped_expired : Int, cancelled : Int]
      /\ u.state = [g \in Gens(s) |-> IF g \in O THEN "Released" ELSE c.state[g]]
      /\ u.activated = c.activated
      /\ u.counters.released = c.counters.released + Cardinality(O)
      /\ u.counters.dropped_expired = c.counters.dropped_expired
      /\ u.counters.cancelled = c.counters.cancelled - Cardinality(SpentUps(c, f))
  BY DEF Fits, UpsCommitted
<1>2. /\ \A g \in L : g \in Gens(s) /\ c.state[g] = "Active"
      /\ \A g \in S : g \in Gens(s) /\ c.state[g] = "Cancelled"
      /\ SpentUps(c, f) \subseteq Keys
      /\ \A k \in SpentUps(c, f) : f.ups[k][2] = k
  BY OverIs
<1>3. O = L \cup S
  BY DEF Over
<1>4. L \subseteq A /\ S \subseteq C /\ O \cap R = {} /\ L \cap S = {}
  BY <1>1, <1>2, <1>3 DEF InState
<1>5. Cardinality(S) = Cardinality(SpentUps(c, f))
  <2> DEFINE h == f.ups
             T == SpentUps(c, f)
  <2>1. T \subseteq Keys /\ \A k \in T : h[k][2] = k
    BY <1>2
  <2> HIDE DEF h, T
  <2>2. Cardinality({h[k] : k \in T}) = Cardinality(T)
    BY <2>1, KeyImage
  <2> QED
    BY <2>2 DEF h, T
<1> HIDE DEF L, S, O
<1>6. /\ InState(u, "Active") = A \ L
      /\ InState(u, "Released") = R \cup O
      /\ InState(u, "Cancelled") = C \ S
      /\ InState(u, "DroppedExpired") = InState(c, "DroppedExpired")
  <2>1. DOMAIN u.state = Gens(s) /\ \A g \in Gens(s) : u.state[g] = IF g \in O THEN "Released" ELSE c.state[g]
    BY <1>1
  <2>2. O \subseteq Gens(s)
    BY <1>2, <1>3
  <2>3. InState(u, "Active") = A \ L
    BY <1>1, <1>2, <1>3, <2>1 DEF InState
  <2>4. InState(u, "Released") = R \cup O
    BY <1>1, <2>1, <2>2 DEF InState
  <2>5. InState(u, "Cancelled") = C \ S
    BY <1>1, <1>2, <1>3, <2>1 DEF InState
  <2>6. InState(u, "DroppedExpired") = InState(c, "DroppedExpired")
    BY <1>1, <1>2, <1>3, <2>1 DEF InState
  <2> QED
    BY <2>3, <2>4, <2>5, <2>6
<1>7. IsFiniteSet(A) /\ IsFiniteSet(R) /\ IsFiniteSet(C)
  BY StatesCounted
<1>8. /\ c.counters.released = Cardinality(R)
      /\ c.counters.dropped_expired = Cardinality(InState(c, "DroppedExpired"))
      /\ c.counters.cancelled = Cardinality(C)
      /\ c.activated = Cardinality(A) + Cardinality(R) + Cardinality(C)
  BY DEF Counted
<1> HIDE DEF A, R, C
<1>9. /\ Cardinality(A \ L) = Cardinality(A) - Cardinality(L) /\ IsFiniteSet(L)
      /\ Cardinality(L) \in Nat /\ Cardinality(A) \in Nat
  BY <1>4, <1>7, Removed
<1>10. /\ Cardinality(C \ S) = Cardinality(C) - Cardinality(S) /\ IsFiniteSet(S)
       /\ Cardinality(S) \in Nat /\ Cardinality(C) \in Nat
  BY <1>4, <1>7, Removed
<1>11. Cardinality(O) = Cardinality(L) + Cardinality(S) /\ IsFiniteSet(O)
  BY <1>3, <1>4, <1>9, <1>10, Joined
<1>12. Cardinality(R \cup O) = Cardinality(R) + Cardinality(O) /\ Cardinality(R) \in Nat
  <2>1. R \cap O = {}
    BY <1>4
  <2> QED
    BY <2>1, <1>7, <1>11, Joined
<1> DEFINE a == Cardinality(A)
           r == Cardinality(R)
           z == Cardinality(C)
           l == Cardinality(L)
           e == Cardinality(S)
           o == Cardinality(O)
<1>13. /\ Cardinality(InState(u, "Active")) = a - l
       /\ Cardinality(InState(u, "Released")) = r + o
       /\ Cardinality(InState(u, "Cancelled")) = z - e
       /\ Cardinality(InState(u, "DroppedExpired")) = u.counters.dropped_expired
  BY <1>1, <1>6, <1>8, <1>9, <1>10, <1>12
<1>14. /\ a \in Nat /\ r \in Nat /\ z \in Nat /\ l \in Nat /\ e \in Nat /\ o = l + e
       /\ u.activated = a + r + z /\ u.counters.released = r + o /\ u.counters.cancelled = z - e
  BY <1>1, <1>5, <1>8, <1>9, <1>10, <1>11, <1>12
<1> HIDE DEF a, r, z, l, e, o
<1>15. u.activated = (a - l) + (r + o) + (z - e)
  BY <1>14
<1> QED
  BY <1>13, <1>14, <1>15 DEF Counted

\* So does a press, and so does a drop.
LEMMA DownsCountedExactly ==
    ASSUME NEW s \in Songs, NEW f, FrameFits(f, s), NEW u, Fits(u, s), DownsFree(u, f), Counted(u),
           NEW v, DownsCommitted(u, f, v, s) \/ DownsDropped(u, f, v, s)
    PROVE  Counted(v)
<1> DEFINE P == Pressed(f)
           A == InState(u, "Active")
           D == InState(u, "DroppedExpired")
<1>1. /\ P \subseteq Gens(s) /\ IsFiniteSet(P) /\ Cardinality(P) \in Nat
      /\ \A g \in P : u.state[g] = "Scheduled"
  BY PressedCounted DEF DownsFree, Pressed
<1>2. /\ DOMAIN u.state = Gens(s) /\ u.counters \in [released : Int, dropped_expired : Int, cancelled : Int]
  BY DEF Fits
<1>3. IsFiniteSet(A) /\ IsFiniteSet(D) /\ Cardinality(InState(u, "Released")) \in Nat
      /\ Cardinality(InState(u, "Cancelled")) \in Nat
  BY StatesCounted
<1>4. A \cap P = {} /\ D \cap P = {}
  BY <1>1 DEF InState
<1> HIDE DEF P
<1>5. /\ Cardinality(A \cup P) = Cardinality(A) + Cardinality(P) /\ Cardinality(A) \in Nat
      /\ Cardinality(D \cup P) = Cardinality(D) + Cardinality(P) /\ Cardinality(D) \in Nat
  BY <1>1, <1>3, <1>4, Joined
<1>6. CASE DownsCommitted(u, f, v, s)
  <2>1. /\ v.state = [g \in Gens(s) |-> IF g \in P THEN "Active" ELSE u.state[g]]
        /\ v.activated = u.activated + Cardinality(P) /\ v.counters = u.counters
    BY <1>6 DEF DownsCommitted, P
  <2>2. /\ InState(v, "Active") = A \cup P
        /\ InState(v, "Released") = InState(u, "Released")
        /\ InState(v, "Cancelled") = InState(u, "Cancelled")
        /\ InState(v, "DroppedExpired") = D
    BY <1>1, <1>2, <2>1 DEF InState
  <2> DEFINE a == Cardinality(A)
             p == Cardinality(P)
             r == Cardinality(InState(u, "Released"))
             z == Cardinality(InState(u, "Cancelled"))
  <2>3. /\ a \in Nat /\ p \in Nat /\ r \in Nat /\ z \in Nat
        /\ v.activated = (a + r + z) + p
        /\ v.counters.released = r /\ v.counters.cancelled = z
        /\ v.counters.dropped_expired = Cardinality(InState(v, "DroppedExpired"))
    BY <1>1, <1>3, <1>5, <2>1, <2>2 DEF Counted
  <2>4. /\ Cardinality(InState(v, "Active")) = a + p
        /\ Cardinality(InState(v, "Released")) = r /\ Cardinality(InState(v, "Cancelled")) = z
    BY <1>5, <2>2
  <2> HIDE DEF a, p, r, z
  <2>5. v.activated = (a + p) + r + z
    BY <2>3
  <2> QED
    BY <2>3, <2>4, <2>5 DEF Counted
<1>7. CASE DownsDropped(u, f, v, s)
  <2>1. /\ v.state = [g \in Gens(s) |-> IF g \in P THEN "DroppedExpired" ELSE u.state[g]]
        /\ v.activated = u.activated /\ v.counters.cancelled = u.counters.cancelled
        /\ v.counters.released = u.counters.released
        /\ v.counters.dropped_expired = u.counters.dropped_expired + Cardinality(P)
    BY <1>7 DEF DownsDropped, P
  <2>2. /\ InState(v, "Active") = A
        /\ InState(v, "Released") = InState(u, "Released")
        /\ InState(v, "Cancelled") = InState(u, "Cancelled")
        /\ InState(v, "DroppedExpired") = D \cup P
    BY <1>1, <1>2, <2>1 DEF InState
  <2> HIDE DEF A, D
  <2> QED
    BY <1>1, <1>3, <1>5, <2>1, <2>2 DEF Counted, A, D
<1> QED
  BY <1>6, <1>7

\* A move of the cursor counts nothing.
LEMMA CursorCounted ==
    ASSUME NEW s \in Songs, NEW c, NEW v, Counted(c), CursorMoved(c, v, s)
    PROVE  Counted(v)
BY DEF Counted, CursorMoved, InState

\* A pause counts what it cancels.
LEMMA CancelCounted ==
    ASSUME NEW s \in Songs, Compiles(s), NEW c, Fits(c, s), NEW n, PlacedAt(c, s, n, n), Counted(c),
           NEW v, LiveCancelled(c, v, s)
    PROVE  Counted(v)
<1> DEFINE A == InState(c, "Active")
           C == InState(c, "Cancelled")
<1>1. LiveGens(c) = A
  BY LiveIs
<1>2. /\ DOMAIN c.state = Gens(s)
      /\ v.state = [g \in Gens(s) |-> IF g \in A THEN "Cancelled" ELSE c.state[g]]
      /\ v.activated = c.activated
      /\ v.counters.released = c.counters.released
      /\ v.counters.dropped_expired = c.counters.dropped_expired
      /\ v.counters.cancelled = c.counters.cancelled + Cardinality(A)
  BY <1>1 DEF Fits, LiveCancelled
<1>3. /\ InState(v, "Active") = {}
      /\ InState(v, "Released") = InState(c, "Released")
      /\ InState(v, "Cancelled") = C \cup A
      /\ InState(v, "DroppedExpired") = InState(c, "DroppedExpired")
  BY <1>2 DEF InState
<1>4. IsFiniteSet(A) /\ IsFiniteSet(C) /\ Cardinality(InState(c, "Released")) \in Nat
  BY StatesCounted
<1>5. C \cap A = {}
  BY DEF InState
<1> HIDE DEF A, C
<1>6. /\ Cardinality(C \cup A) = Cardinality(C) + Cardinality(A)
      /\ Cardinality(C) \in Nat /\ Cardinality(A) \in Nat
  BY <1>4, <1>5, Joined
<1>7. Cardinality({}) = 0
  BY FS_EmptySet
<1> QED
  BY <1>2, <1>3, <1>4, <1>6, <1>7 DEF Counted, A, C

\* A new coordinator has counted nothing.
LEMMA NewCounted ==
    ASSUME NEW s \in Songs
    PROVE  Counted(NewCoordinator(Compile(s)))
<1> DEFINE c == NewCoordinator(Compile(s))
<1>1. c.state = [g \in Gens(s) |-> "Scheduled"] /\ c.counters = Zero /\ c.activated = 0
  BY DEF NewCoordinator, Gens
<1> HIDE DEF c
<1>2. /\ InState(c, "Active") = {} /\ InState(c, "Released") = {}
      /\ InState(c, "Cancelled") = {} /\ InState(c, "DroppedExpired") = {}
  BY <1>1 DEF InState
<1>3. Counted(c)
  BY <1>1, <1>2, FS_EmptySet DEF Counted, Zero
<1> QED
  BY <1>3 DEF c

\* Every generation is in one state.
LEMMA Census ==
    ASSUME NEW s \in Songs, NEW c, Fits(c, s)
    PROVE  /\ Cardinality(Gens(s)) = Cardinality(InState(c, "Scheduled")) + Cardinality(InState(c, "Active"))
                  + Cardinality(InState(c, "Released")) + Cardinality(InState(c, "DroppedExpired"))
                  + Cardinality(InState(c, "Cancelled"))
           /\ Cardinality(Gens(s) \ (InState(c, "Active") \cup InState(c, "Scheduled"))) =
                  Cardinality(InState(c, "Released")) + Cardinality(InState(c, "DroppedExpired"))
                  + Cardinality(InState(c, "Cancelled"))
<1> DEFINE S == InState(c, "Scheduled")
           A == InState(c, "Active")
           R == InState(c, "Released")
           D == InState(c, "DroppedExpired")
           C == InState(c, "Cancelled")
<1>1. c.state \in [Gens(s) -> Statuses]
  BY DEF Fits
<1>2. Gens(s) = (S \cup A) \cup ((R \cup D) \cup C)
  BY <1>1 DEF InState, Statuses
<1>3. /\ S \cap A = {} /\ R \cap D = {} /\ (R \cup D) \cap C = {}
      /\ (S \cup A) \cap ((R \cup D) \cup C) = {}
  BY DEF InState
<1>4. IsFiniteSet(S) /\ IsFiniteSet(A) /\ IsFiniteSet(R) /\ IsFiniteSet(D) /\ IsFiniteSet(C)
  BY StatesCounted
<1> HIDE DEF S, A, R, D, C
<1>5. Cardinality(S \cup A) = Cardinality(S) + Cardinality(A) /\ IsFiniteSet(S \cup A)
      /\ Cardinality(S) \in Nat /\ Cardinality(A) \in Nat
  BY <1>3, <1>4, Joined
<1>6. Cardinality(R \cup D) = Cardinality(R) + Cardinality(D) /\ IsFiniteSet(R \cup D)
      /\ Cardinality(R) \in Nat /\ Cardinality(D) \in Nat
  BY <1>3, <1>4, Joined
<1>7. Cardinality((R \cup D) \cup C) = Cardinality(R \cup D) + Cardinality(C) /\ IsFiniteSet((R \cup D) \cup C)
      /\ Cardinality(C) \in Nat
  BY <1>3, <1>4, <1>6, Joined
<1>8. Cardinality(Gens(s)) = Cardinality(S \cup A) + Cardinality((R \cup D) \cup C)
  BY <1>2, <1>3, <1>5, <1>7, Joined
<1>9. Gens(s) \ (A \cup S) = (R \cup D) \cup C
  BY <1>2, <1>3
<1> DEFINE x == Cardinality(S)
           a == Cardinality(A)
           r == Cardinality(R)
           d == Cardinality(D)
           z == Cardinality(C)
<1>10. /\ x \in Nat /\ a \in Nat /\ r \in Nat /\ d \in Nat /\ z \in Nat
       /\ Cardinality(Gens(s)) = (x + a) + ((r + d) + z)
       /\ Cardinality(Gens(s) \ (A \cup S)) = (r + d) + z
  BY <1>5, <1>6, <1>7, <1>8, <1>9
<1> HIDE DEF x, a, r, d, z
<1>11. Cardinality(Gens(s)) = x + a + r + d + z /\ Cardinality(Gens(s) \ (A \cup S)) = r + d + z
  BY <1>10
<1> QED
  BY <1>11 DEF x, a, r, d, z, S, A, R, D, C

\* An exact ledger passes check_local_invariants and check_invariants.
LEMMA ExactConsistent ==
    ASSUME NEW s \in Songs, Compiles(s), NEW c, Fits(c, s), Ledger(c, s), NEW n \in Int,
           PlacedAt(c, s, n, n), Counted(c)
    PROVE  Consistent(c) /\ LocallyConsistent(c)
<1>1. /\ DOMAIN c.state = Gens(s) /\ c.location = Loc(s)
      /\ c.token \in [Keys -> Gens(s) \cup {NoGen}]
  BY DEF Fits, Loc
<1>2. Cardinality(Live(c)) = Cardinality(InState(c, "Active"))
  BY LiveCounted, LiveIs
<1>3. /\ Cardinality(InState(c, "Scheduled")) \in Nat /\ Cardinality(InState(c, "Active")) \in Nat
      /\ Cardinality(InState(c, "Released")) \in Nat /\ Cardinality(InState(c, "DroppedExpired")) \in Nat
      /\ Cardinality(InState(c, "Cancelled")) \in Nat
  BY StatesCounted
<1>4. ASSUME NEW k \in Keys, c.token[k] # NoGen
      PROVE  /\ Invalidated(c, c.token[k]) /\ c.state[c.token[k]] = "Cancelled"
             /\ Loc(s)[c.token[k]] >= n /\ ~(c.token[k][1] >= n) /\ c.token[k] \in Gens(s) /\ c.token[k][2] = k
  <2> DEFINE g == c.token[k]
  <2>1. g \in Gens(s) /\ g[2] = k
    BY <1>1, <1>4 DEF PlacedAt
  <2> HIDE DEF g
  <2>2. GenAt(c, s, g, n, n) /\ c.token[g[2]] = g
    BY <2>1 DEF PlacedAt, g
  <2>3. /\ c.state[g] = "Cancelled" /\ Loc(s)[g] >= n /\ ~(g[1] >= n)
        /\ c.packets[Loc(s)[g]].ups[g[2]] = NoGen /\ g[2] \in c.packets[Loc(s)[g]].up_mask
    BY <2>2 DEF GenAt
  <2>4. Invalidated(c, g)
    BY <1>1, <2>3 DEF Invalidated
  <2> QED
    BY <2>1, <2>3, <2>4 DEF g
<1>5. ASSUME NEW k \in Live(c) PROVE c.token[k] = NoGen /\ c.state[c.active[k]] = "Active"
  <2> DEFINE g == c.active[k]
             h == c.token[k]
  <2>1. k \in Keys /\ g \in Gens(s) /\ g[2] = k /\ c.state[g] = "Active"
    BY LiveIs
  <2> SUFFICES ASSUME h # NoGen PROVE FALSE
    BY <2>1
  <2>2. h \in Gens(s) /\ h[2] = k /\ c.state[h] = "Cancelled" /\ Loc(s)[h] >= n /\ ~(h[1] >= n)
    BY <1>4, <2>1
  <2> HIDE DEF g, h
  <2>3. GenAt(c, s, g, n, n)
    BY <2>1 DEF PlacedAt
  <2>4. Loc(s)[g] >= n /\ ~(g[1] >= n)
    BY <2>1, <2>3 DEF GenAt
  <2>5. g[1] \in Int /\ Loc(s)[g] \in Int /\ h[1] \in Int /\ Loc(s)[h] \in Int
    BY <2>1, <2>2, GenPlace
  <2>6. g = h
    BY <2>1, <2>2, <2>4, <2>5, OneOpen
  <2> QED
    BY <2>1, <2>2, <2>6
<1>6. LocallyConsistent(c)
  <2>1. /\ c.counters.released + Cardinality(Live(c)) <= c.activated
        /\ c.activated <= Cardinality(DOMAIN c.state)
        /\ Terminal(c) + Cardinality(Live(c)) <= Cardinality(DOMAIN c.state)
    <3> DEFINE x == Cardinality(InState(c, "Scheduled"))
               a == Cardinality(InState(c, "Active"))
               r == Cardinality(InState(c, "Released"))
               d == Cardinality(InState(c, "DroppedExpired"))
               z == Cardinality(InState(c, "Cancelled"))
               all == Cardinality(Gens(s))
    <3>1. /\ x \in Nat /\ a \in Nat /\ r \in Nat /\ d \in Nat /\ z \in Nat
          /\ all = x + a + r + d + z
      BY <1>3, Census
    <3>2. /\ c.counters.released = r /\ c.activated = a + r + z /\ Terminal(c) = r + d + z
          /\ Cardinality(Live(c)) = a /\ Cardinality(DOMAIN c.state) = all
      BY <1>1, <1>2 DEF Counted, Terminal
    <3> HIDE DEF x, a, r, d, z, all
    <3> QED
      BY <3>1, <3>2
  <2> QED
    BY <1>4, <1>5, <2>1 DEF LocallyConsistent
<1>7. Terminal(c) = Cardinality(DOMAIN c.state \ (InState(c, "Active") \cup InState(c, "Scheduled")))
  BY <1>1, <1>3, Census DEF Counted, Terminal
<1> QED
  BY <1>2, <1>6, <1>7 DEF Consistent

\* A pause is accepted, and leaves an exact ledger
\* (cancel_live_generations_after_verified_resumable_cleanup).
LEMMA CancelAccepted ==
    ASSUME NEW s \in Songs, Compiles(s), NEW c, Fits(c, s), Ledger(c, s), Exact(c, s)
    PROVE  CancelLive(c).ok /\ Exact(CancelLive(c).c, s)
<1> DEFINE v == CancelLive(c).c
           n == c.cursor
<1>1. PlacedAt(c, s, n, n) /\ Counted(c) /\ n \in Int /\ c.location = Loc(s)
  BY DEF Exact, Fits, Loc
<1>2. LiveCancelled(c, v, s)
  BY CancelLiveFits
<1>3. CancelLive(c).ok = (/\ LocallyConsistent(c)
                          /\ \A k \in Live(c) : /\ c.packets[c.location[c.active[k]]].ups[k] = c.active[k]
                                                /\ k \in c.packets[c.location[c.active[k]]].up_mask
                          /\ LocallyConsistent(v))
  BY DEF CancelLive, Check
<1> HIDE DEF v
<1>4. Fits(v, s) /\ v.cursor = n /\ Ledger(v, s)
  BY <1>2, RestLedger DEF LiveCancelled
<1>5. PlacedAt(v, s, n, n) /\ Counted(v)
  BY <1>1, <1>2, CancelPlaced, CancelCounted
<1>6. LocallyConsistent(c) /\ LocallyConsistent(v)
  BY <1>1, <1>4, <1>5, ExactConsistent
<1>7. ASSUME NEW k \in Live(c)
      PROVE  /\ c.packets[c.location[c.active[k]]].ups[k] = c.active[k]
             /\ k \in c.packets[c.location[c.active[k]]].up_mask
  <2> DEFINE g == c.active[k]
  <2>1. g \in Gens(s) /\ g[2] = k /\ c.state[g] = "Active"
    BY <1>1, LiveIs
  <2> HIDE DEF g
  <2>2. GenAt(c, s, g, n, n)
    BY <1>1, <2>1 DEF PlacedAt
  <2>3. c.packets[Loc(s)[g]].ups[k] = g /\ k \in c.packets[Loc(s)[g]].up_mask
    BY <2>1, <2>2 DEF GenAt
  <2> QED
    BY <1>1, <2>3 DEF g
<1>8. CancelLive(c).ok
  BY <1>3, <1>6, <1>7
<1> QED
  BY <1>4, <1>5, <1>8 DEF Exact, v

\* The end of a session leaves a ledger that passes every check
\* (cancel_all, check_post_cleanup_invariants).
LEMMA CleanupAccepted ==
    ASSUME NEW s \in Songs, Compiles(s), NEW c, Fits(c, s), Ledger(c, s), Exact(c, s)
    PROVE  Consistent(c) /\ CleanedUp(CancelAll(c))
<1> DEFINE v == CancelAll(c)
           S == InState(c, "Scheduled")
           A == InState(c, "Active")
           gone == S \cup A
           packets == [i \in DOMAIN c.packets |->
                          Withdrawn(c.packets[i], {k \in DOMAIN c.packets[i].ups : c.packets[i].ups[k] \in gone})]
<1>1. /\ c = [packets |-> c.packets, cursor |-> c.cursor, location |-> c.location,
              state |-> c.state, counters |-> c.counters, activated |-> c.activated,
              active |-> c.active, floor |-> c.floor, token |-> c.token]
      /\ DOMAIN c.state = Gens(s) /\ c.cursor \in Int
      /\ c.counters \in [released : Int, dropped_expired : Int, cancelled : Int]
  BY DEF Fits
<1>2. v = [c EXCEPT !.state = [g \in DOMAIN @ |-> IF g \in gone THEN "Cancelled" ELSE @[g]],
                    !.counters.cancelled = @ + Cardinality(gone),
                    !.packets = packets,
                    !.active = [k \in Keys |-> NoGen],
                    !.floor = [k \in Keys |-> 0],
                    !.token = [k \in Keys |-> NoGen]]
  BY DEF CancelAll
<1>3. Consistent(c)
  BY <1>1, ExactConsistent DEF Exact
<1> HIDE DEF v, gone, packets
<1>4. /\ v.state = [g \in Gens(s) |-> IF g \in gone THEN "Cancelled" ELSE c.state[g]]
      /\ v.active = [k \in Keys |-> NoGen] /\ v.token = [k \in Keys |-> NoGen]
      /\ v.activated = c.activated
      /\ v.counters.released = c.counters.released
      /\ v.counters.dropped_expired = c.counters.dropped_expired
      /\ v.counters.cancelled = c.counters.cancelled + Cardinality(gone)
  BY <1>1, <1>2
<1>5. /\ Live(v) = {} /\ \A k \in Keys : v.token[k] = NoGen
      /\ DOMAIN v.state = Gens(s)
      /\ InState(v, "Scheduled") = {} /\ InState(v, "Active") = {}
  BY <1>1, <1>4 DEF Live, InState, gone
<1>6. IsFiniteSet(S) /\ IsFiniteSet(A) /\ S \cap A = {}
  BY StatesCounted DEF InState
<1>7. Cardinality(gone) = Cardinality(S) + Cardinality(A)
  BY <1>6, Joined DEF gone
<1> DEFINE x == Cardinality(S)
           a == Cardinality(A)
           r == Cardinality(InState(c, "Released"))
           d == Cardinality(InState(c, "DroppedExpired"))
           z == Cardinality(InState(c, "Cancelled"))
           all == Cardinality(Gens(s))
<1>8. /\ x \in Nat /\ a \in Nat /\ r \in Nat /\ d \in Nat /\ z \in Nat /\ all = x + a + r + d + z
  BY StatesCounted, Census
<1>9. /\ v.counters.released = r /\ v.counters.dropped_expired = d /\ v.counters.cancelled = z + (x + a)
      /\ v.activated = a + r + z
  BY <1>4, <1>7 DEF Exact, Counted
<1>10. Cardinality(Live(v)) = 0 /\ Cardinality(DOMAIN v.state) = all /\ Cardinality(InState(v, "Active")) = 0
  BY <1>5, FS_EmptySet
<1> HIDE DEF x, a, r, d, z, all
<1>11. Terminal(v) = all
  BY <1>8, <1>9 DEF Terminal
<1>12. LocallyConsistent(v)
  <2>1. /\ v.counters.released + Cardinality(Live(v)) <= v.activated
        /\ v.activated <= Cardinality(DOMAIN v.state)
        /\ Terminal(v) + Cardinality(Live(v)) <= Cardinality(DOMAIN v.state)
    BY <1>8, <1>9, <1>10, <1>11
  <2> QED
    BY <1>5, <2>1 DEF LocallyConsistent
<1>13. Terminal(v) = Cardinality(DOMAIN v.state \ (InState(v, "Active") \cup InState(v, "Scheduled")))
  <2>1. DOMAIN v.state \ (InState(v, "Active") \cup InState(v, "Scheduled")) = Gens(s)
    BY <1>5
  <2> QED
    BY <1>11, <2>1 DEF all
<1>14. Consistent(v)
  BY <1>10, <1>12, <1>13 DEF Consistent
<1>15. CleanedUp(v)
  BY <1>5, <1>14 DEF CleanedUp
<1> QED
  BY <1>3, <1>15 DEF v

\* Past its last packet, a session is finished.
LEMMA PastTheEnd ==
    ASSUME NEW s \in Songs, Compiles(s), NEW c, Fits(c, s), Exact(c, s), c.cursor > Len(s)
    PROVE  is_finished(c)
<1> DEFINE n == c.cursor
<1>1. /\ PlacedAt(c, s, n, n) /\ n \in Int /\ DOMAIN c.state = Gens(s)
      /\ c.token \in [Keys -> Gens(s) \cup {NoGen}]
  BY DEF Exact, Fits
<1>2. DOMAIN s = 1 .. Len(s) /\ Len(s) \in Nat /\ Len(c.packets) = Len(s)
  BY SongType, FitsPackets
<1>3. ASSUME NEW g \in Gens(s) PROVE c.state[g] \notin {"Scheduled", "Active", "Cancelled"}
  <2>1. GenAt(c, s, g, n, n) /\ g[1] \in DOMAIN s /\ Loc(s)[g] \in DOMAIN s
    BY <1>1, GenPlace DEF PlacedAt
  <2>2. ~(g[1] >= n) /\ ~(Loc(s)[g] >= n)
    BY <1>1, <1>2, <2>1
  <2> QED
    BY <2>1, <2>2 DEF GenAt
<1>4. InState(c, "Scheduled") = {} /\ InState(c, "Active") = {} /\ InState(c, "Cancelled") = {}
  BY <1>1, <1>3 DEF InState
<1>5. Live(c) = {}
  BY <1>1, <1>3, LiveIs
<1>6. ASSUME NEW k \in Keys PROVE c.token[k] = NoGen
  <2> SUFFICES ASSUME c.token[k] # NoGen PROVE FALSE
    OBVIOUS
  <2> DEFINE g == c.token[k]
  <2>1. g \in Gens(s) /\ g[2] = k
    BY <1>1 DEF PlacedAt
  <2> HIDE DEF g
  <2>2. GenAt(c, s, g, n, n) /\ c.token[g[2]] = g
    BY <1>1, <2>1 DEF PlacedAt, g
  <2>3. c.state[g] = "Cancelled"
    BY <2>2 DEF GenAt
  <2> QED
    BY <1>3, <2>1, <2>3
<1>7. Terminal(c) = Cardinality(DOMAIN c.state)
  <2> DEFINE r == Cardinality(InState(c, "Released"))
             d == Cardinality(InState(c, "DroppedExpired"))
             all == Cardinality(Gens(s))
  <2>1. Cardinality({}) = 0
    BY FS_EmptySet
  <2>2. r \in Nat /\ d \in Nat /\ all = 0 + 0 + r + d + 0
    BY <1>4, <2>1, StatesCounted, Census
  <2>3. Terminal(c) = r + d + 0
    BY <1>4, <2>1 DEF Exact, Counted, Terminal
  <2> HIDE DEF r, d, all
  <2>4. Terminal(c) = all
    BY <2>2, <2>3
  <2> QED
    BY <1>1, <2>4 DEF all
<1> QED
  BY <1>1, <1>2, <1>5, <1>6, <1>7 DEF is_finished

\* A frame of the packet at the cursor is accepted, and the ledger stays
\* exact whether its Downs are played or dropped.
LEMMA CommitExact ==
    ASSUME NEW s \in Songs, Admits(s), NEW c, Fits(c, s), Ledger(c, s), Exact(c, s),
           NEW f, FrameFits(f, s), FrameOf(c, s, f), NEW t \in Int, f.at <= t
    PROVE  /\ CommitSuccess(c, f, t).ok /\ Exact(CommitSuccess(c, f, t).c, s)
           /\ CommitSuccess(c, f, t).c.cursor = c.cursor + 1
           /\ CommitMiss(c, f, t).ok /\ Exact(CommitMiss(c, f, t).c, s)
<1> DEFINE n == c.cursor
           u == CommitUps(c, f, t).c
           v == CommitSuccess(c, f, t).c
           w == CommitMiss(c, f, t).c
<1>1. /\ Compiles(s) /\ PlacedAt(c, s, n, n) /\ Counted(c) /\ n \in Int /\ f.packet = n
  BY DEF Admits, Exact, Fits, FrameOf
<1>2. CommitUps(c, f, t).ok /\ CommitSuccess(c, f, t).ok /\ CommitMiss(c, f, t).ok
  BY <1>1, CommitAccepted
<1>3. UpsCommitted(c, f, u, s) /\ DownsCommitted(u, f, v, s) /\ DownsDropped(u, f, w, s)
  BY CommitUpsFits, CommitSuccessFits, CommitMissFits
<1>4. \A g \in Over(c, f) : c.state[g] \in {"Active", "Cancelled"}
  BY <1>2, UpsChecked
<1> HIDE DEF u, v, w
<1>5. /\ Fits(u, s) /\ u.cursor = n /\ v.cursor = u.cursor + 1 /\ w.cursor = u.cursor + 1
      /\ u.token = [k \in Keys |-> IF k \in SpentUps(c, f) THEN NoGen ELSE c.token[k]]
  BY <1>3 DEF UpsCommitted, DownsCommitted, DownsDropped
<1>6. PlacedAt(u, s, n, n + 1) /\ Counted(u) /\ DownsFree(u, f)
  BY <1>1, <1>3, <1>4, UpsPlaced, UpsCountedExactly, DownsAccepted
<1>7. \A k \in Downs(f) : u.token[k] = NoGen
  <2> TAKE k \in Downs(f)
  <2>1. k \in Keys /\ c.token[k] = NoGen
    BY <1>1, DownState, FrameDowns
  <2> QED
    BY <1>5, <2>1
<1>8. PlacedAt(v, s, n + 1, n + 1) /\ Counted(v)
  BY <1>1, <1>3, <1>5, <1>6, <1>7, DownsPlaced, DownsCountedExactly
<1>9. PlacedAt(w, s, n + 1, n + 1) /\ Counted(w)
  BY <1>1, <1>3, <1>5, <1>6, DropPlaced, DownsCountedExactly
<1>10. Exact(v, s) /\ Exact(w, s)
  BY <1>5, <1>8, <1>9 DEF Exact
<1> QED
  BY <1>2, <1>5, <1>10 DEF v, w

\* So is a frame without keys.
LEMMA MetadataExact ==
    ASSUME NEW s \in Songs, Admits(s), NEW c, Fits(c, s), Ledger(c, s), Exact(c, s),
           NEW f, FrameFits(f, s), FrameOf(c, s, f), ~Physical(f)
    PROVE  /\ CommitMetadata(c, f).ok /\ Exact(CommitMetadata(c, f).c, s)
           /\ CommitMetadata(c, f).c.cursor = c.cursor + 1
<1> DEFINE n == c.cursor
           u == CommitUps(c, f, f.at).c
           v == CommitMetadata(c, f).c
<1>1. /\ Compiles(s) /\ PlacedAt(c, s, n, n) /\ Counted(c) /\ n \in Int /\ f.packet = n
      /\ Ups(f) = {} /\ Downs(f) = {}
  BY DEF Admits, Exact, Fits, FrameOf, Physical
<1>2. f.at \in Int
  BY FrameDowns
<1>3. CommitUps(c, f, f.at).ok
  <2>1. f.at <= f.at
    BY <1>2
  <2> QED
    BY <1>1, <1>2, <2>1, UpsAccepted
<1>4. CommitMetadata(c, f).ok
  BY <1>3 DEF CommitMetadata, Check
<1>5. UpsCommitted(c, f, u, s) /\ CursorMoved(u, v, s)
  BY CommitUpsFits, CommitMetadataFits
<1> HIDE DEF u, v
<1>6. Fits(u, s) /\ u.cursor = n /\ v.cursor = n + 1
  BY <1>5 DEF UpsCommitted, CursorMoved
<1>7. PlacedAt(u, s, n, n + 1) /\ Counted(u)
  BY <1>1, <1>5, UpsPlaced, UpsCountedExactly
<1>8. \A g \in Gens(s) : g[1] # n
  <2>1. Pressed(f) = {}
    BY <1>1 DEF Pressed
  <2> QED
    BY <1>1, <2>1, PressedIs
<1>9. PlacedAt(v, s, n + 1, n + 1)
  <2>1. v.packets = u.packets /\ v.token = u.token /\ v.state = u.state /\ v.active = u.active
    BY <1>5 DEF CursorMoved
  <2>2. ASSUME NEW g \in Gens(s) PROVE GenAt(v, s, g, n + 1, n + 1)
    <3>1. GenAt(u, s, g, n, n + 1) /\ g[1] \in Int
      BY <1>1, <1>7, GenPlace DEF PlacedAt
    <3>2. g[1] >= n <=> g[1] >= n + 1
      BY <1>1, <1>8, <3>1
    <3> QED
      BY <2>1, <3>1, <3>2 DEF GenAt
  <2> QED
    BY <1>7, <2>1, <2>2 DEF PlacedAt
<1>10. Counted(v)
  BY <1>5, <1>7, CursorCounted
<1>11. Exact(v, s)
  BY <1>6, <1>9, <1>10 DEF Exact
<1> QED
  BY <1>4, <1>6, <1>11 DEF v

\* And so is a packet with nothing left in its masks (commit_stale_packet).
LEMMA StaleExact ==
    ASSUME NEW s \in Songs, Compiles(s), NEW c, Fits(c, s), Exact(c, s), c.cursor \in DOMAIN s, Stale(c)
    PROVE  CommitStale(c).ok /\ Exact(CommitStale(c).c, s)
<1> DEFINE n == c.cursor
           v == CommitStale(c).c
           p == c.packets[n]
<1>1. PlacedAt(c, s, n, n) /\ Counted(c) /\ n \in Int /\ c.state \in [Gens(s) -> Statuses]
  BY DEF Exact, Fits
<1>2. p.up_mask = {} /\ DOMAIN p.downs = {}
  BY DEF Stale
<1>3. DOMAIN p.ups = s[n].ups /\ p.downs = [k \in s[n].downs |-> <<n, k>>]
  <2>1. \A i \in DOMAIN s : /\ c.packets[i].at = Ticks(s[i].at)
                            /\ DOMAIN c.packets[i].ups = s[i].ups
                            /\ c.packets[i].downs = [j \in s[i].downs |-> <<i, j>>]
    BY FitsPackets
  <2> QED
    BY <2>1
<1>4. CursorMoved(c, v, s)
  BY CommitStaleFits
<1> HIDE DEF v
<1>5. ASSUME NEW g \in Gens(s), Loc(s)[g] = n PROVE c.state[g] \notin {"Active", "Cancelled"}
  <2>1. GenAt(c, s, g, n, n)
    BY <1>1 DEF PlacedAt
  <2>2. c.state[g] \in {"Active", "Cancelled"} => g[2] \in p.up_mask
    BY <1>5, <2>1 DEF GenAt
  <2> QED
    BY <1>2, <2>2
<1>6. ASSUME NEW g \in Gens(s) PROVE g[1] # n
  <2>1. g[2] \in s[g[1]].downs
    BY GensType
  <2>2. s[n].downs = {}
    BY <1>2, <1>3
  <2> QED
    BY <2>1, <2>2
<1>7. ASSUME NEW k \in DOMAIN p.ups PROVE p.ups[k] = NoGen
  <2> SUFFICES ASSUME p.ups[k] # NoGen PROVE FALSE
    OBVIOUS
  <2> DEFINE g == p.ups[k]
  <2>1. k \in s[n].ups
    BY <1>3
  <2>2. g = Compile(s)[n].ups[k]
    BY <1>1, <2>1 DEF PlacedAt
  <2>3. g \in Gens(s) /\ g[2] = k /\ Loc(s)[g] = n
    BY <2>1, <2>2, OwnerPlace
  <2>4. c.packets[Loc(s)[g]].ups[g[2]] # NoGen
    BY <2>3
  <2> HIDE DEF g
  <2>5. GenAt(c, s, g, n, n) /\ g[1] \in Int /\ g[1] < n
    BY <1>1, <2>3, GenPlace DEF PlacedAt
  <2>6. c.state[g] # "Scheduled" /\ c.state[g] # "Released" /\ c.state[g] # "DroppedExpired"
    BY <1>1, <2>3, <2>4, <2>5 DEF GenAt
  <2>7. c.state[g] \in {"Active", "Cancelled"}
    BY <1>1, <2>3, <2>6 DEF Statuses
  <2> QED
    BY <1>5, <2>3, <2>7
<1>8. CommitStale(c).ok
  BY <1>7 DEF CommitStale, Check
<1>9. PlacedAt(v, s, n + 1, n + 1)
  BY <1>1, <1>4, <1>5, <1>6, CursorPlaced
<1>10. Counted(v) /\ v.cursor = n + 1
  BY <1>1, <1>4, CursorCounted DEF CursorMoved
<1>11. Exact(v, s)
  BY <1>9, <1>10 DEF Exact
<1> QED
  BY <1>8, <1>11 DEF v

----------------------------------------------------------------------------
(***************************************************************************)
(* No step is refused.                                                     *)
(***************************************************************************)

\* What both invariants say of a session that plays.
LEMMA ExactFacts ==
    ASSUME Inv, Strong, phase = "play"
    PROVE  /\ song \in Songs /\ mode \in {"prepared", "planner"} /\ Admits(song) /\ Compiles(song)
           /\ Fits(coordinator, song) /\ Ledger(coordinator, song) /\ Exact(coordinator, song)
           /\ PlacedAt(coordinator, song, coordinator.cursor, coordinator.cursor)
           /\ clock.now \in Int /\ clock.epoch \in Int
BY PlayFacts DEF Strong, ExactOK, Exact, Admits, TimeOK, TimeTypeOK, ClockRecord

\* What is played is a frame of the packet at the cursor.
LEMMA CurrentFrame ==
    ASSUME Inv, Strong, phase = "play", HasCurrent
    PROVE  /\ coordinator.cursor \in DOMAIN song
           /\ FrameFits(Current, song)
           /\ FrameOf(coordinator, song, Current)
<1>1. FrameFits(Current, song)
  BY CurrentFits
<1>2. /\ song \in Songs /\ Compiles(song) /\ Fits(coordinator, song) /\ mode \in {"prepared", "planner"}
      /\ PlacedAt(coordinator, song, coordinator.cursor, coordinator.cursor)
  BY ExactFacts
<1>3. CASE mode = "prepared"
  <2> DEFINE e == stream.entries
             n == coordinator.cursor
  <2>1. Len(e) = Len(song) /\ stream.cursor = n /\ FrozenAs(stream, song)
    BY <1>3 DEF Strong, ReplayOK
  <2>2. n <= Len(song) /\ Current = e[n]
    BY <1>3, <2>1 DEF HasCurrent, Current
  <2>3. e \in Seq({e[i] : i \in DOMAIN e})
    BY PlayFacts DEF StreamFits
  <2>4. DOMAIN e = 1 .. Len(e)
    BY <2>3, SequenceType
  <2>5. DOMAIN song = 1 .. Len(song) /\ Len(song) \in Nat /\ n \in Nat \ {0}
    BY <1>2, SongType, FitsPackets
  <2>6. n \in DOMAIN e /\ n \in DOMAIN song
    BY <2>1, <2>2, <2>4, <2>5
  <2>7. FrameOf(coordinator, song, e[n])
    BY <1>2, <2>1, <2>6, StreamFrame
  <2> QED
    BY <1>1, <2>2, <2>6, <2>7
<1>4. CASE mode = "planner"
  <2>1. coordinator.cursor <= Len(coordinator.packets) /\ Current = Prepare(coordinator)
    BY <1>4 DEF HasCurrent, Current
  <2>2. coordinator.cursor \in DOMAIN song
    BY <1>2, <2>1, FitsPackets
  <2>3. FrameOf(coordinator, song, Prepare(coordinator))
    BY <1>2, <2>2, PlannedFrame
  <2> QED
    BY <1>1, <2>1, <2>2, <2>3
<1> QED
  BY <1>2, <1>3, <1>4

\* A frame that is due starts no sooner than its packet.
LEMMA DueElapsed ==
    ASSUME Inv, Strong, phase = "play", NEW f, FrameFits(f, song), Target(f) <= clock.now
    PROVE  Elapsed \in Int /\ f.at <= Elapsed
<1>1. song \in Songs /\ clock.now \in Int /\ clock.epoch \in Int
  BY ExactFacts
<1>2. f.at \in Int
  BY <1>1, FrameDowns
<1> QED
  BY <1>1, <1>2 DEF Elapsed, Target

\* The stream and the ledger move together.
LEMMA ReplayStep ==
    ASSUME Inv, Strong, phase = "play", UNCHANGED <<song, mode>>,
           stream' = [stream EXCEPT !.cursor = @ + 1], coordinator'.cursor = coordinator.cursor + 1
    PROVE  ReplayOK'
<1> DEFINE x == stream
           y == [x EXCEPT !.cursor = @ + 1]
<1>1. x = [entries |-> x.entries, cursor |-> x.cursor]
  BY PlayFacts DEF StreamFits
<1> HIDE DEF x
<1>2. y.entries = x.entries /\ y.cursor = x.cursor + 1
  BY <1>1
<1>3. stream' = y
  BY DEF x
<1> HIDE DEF y
<1>4. stream'.entries = stream.entries /\ stream'.cursor = stream.cursor + 1
  BY <1>2, <1>3 DEF x
<1>5. FrozenAs(stream, song) => FrozenAs(stream', song)
  BY <1>4 DEF FrozenAs
<1> QED
  BY <1>4, <1>5 DEF Strong, ReplayOK

\* What a step has to leave while the session plays on.
LEMMA StrongStep ==
    ASSUME phase' = "play", song' = song, Exact(coordinator', song), ReplayOK'
    PROVE  Strong'
BY DEF Strong, ExactOK, SimulationOK, NeverRefused

\* dispatch_prepared_normal_frame is never refused.
LEMMA PreparedStrong == Inv /\ Strong /\ dispatch_prepared => Strong'
<1> SUFFICES ASSUME Inv, Strong, dispatch_prepared PROVE Strong'
  OBVIOUS
<1> DEFINE f == Current
           r == CommitSuccess(coordinator, f, Elapsed)
<1>1. phase = "play" /\ HasCurrent /\ UNCHANGED <<song, mode>> /\ Target(f) <= clock.now
  BY DEF dispatch_prepared, Playing, Due
<1>2. FrameFits(f, song) /\ FrameOf(coordinator, song, f)
  BY <1>1, CurrentFrame
<1>3. /\ song \in Songs /\ Admits(song) /\ Compiles(song) /\ Exact(coordinator, song)
      /\ Fits(coordinator, song) /\ Ledger(coordinator, song)
      /\ PlacedAt(coordinator, song, coordinator.cursor, coordinator.cursor)
  BY <1>1, ExactFacts
<1>4. Frozen(coordinator, f)
  BY <1>2, <1>3, FrozenHolds
<1>5. Committed(r) /\ stream' = [stream EXCEPT !.cursor = @ + 1]
  BY <1>4 DEF dispatch_prepared
<1> HIDE DEF f
<1>6. Elapsed \in Int /\ f.at <= Elapsed
  BY <1>1, <1>2, DueElapsed
<1>7. r.ok /\ Exact(r.c, song) /\ r.c.cursor = coordinator.cursor + 1
  BY <1>2, <1>3, <1>6, CommitExact
<1>8. phase' = "play" /\ coordinator' = r.c
  BY <1>5, <1>7 DEF Committed
<1> HIDE DEF r
<1>9. ReplayOK'
  BY <1>1, <1>5, <1>7, <1>8, ReplayStep
<1> QED
  BY <1>1, <1>7, <1>8, <1>9, StrongStep

\* Nor is a frame without keys.
LEMMA MetadataStrong == Inv /\ Strong /\ dispatch_metadata => Strong'
<1> SUFFICES ASSUME Inv, Strong, dispatch_metadata PROVE Strong'
  OBVIOUS
<1> DEFINE f == Current
           r == CommitMetadata(coordinator, f)
<1>1. /\ phase = "play" /\ HasCurrent /\ UNCHANGED <<song, mode>> /\ ~Physical(f)
      /\ Committed(r) /\ stream' = [stream EXCEPT !.cursor = @ + 1]
  BY DEF dispatch_metadata, Playing
<1>2. FrameFits(f, song) /\ FrameOf(coordinator, song, f)
  BY <1>1, CurrentFrame
<1>3. /\ song \in Songs /\ Admits(song) /\ Exact(coordinator, song)
      /\ Fits(coordinator, song) /\ Ledger(coordinator, song)
  BY <1>1, ExactFacts
<1> HIDE DEF f
<1>4. r.ok /\ Exact(r.c, song) /\ r.c.cursor = coordinator.cursor + 1
  BY <1>1, <1>2, <1>3, MetadataExact
<1>5. phase' = "play" /\ coordinator' = r.c
  BY <1>1, <1>4 DEF Committed
<1> HIDE DEF r
<1>6. ReplayOK'
  BY <1>1, <1>4, <1>5, ReplayStep
<1> QED
  BY <1>1, <1>4, <1>5, <1>6, StrongStep

\* A packet with nothing left is skipped.
LEMMA StaleStrong == Inv /\ Strong /\ dispatch_stale => Strong'
<1> SUFFICES ASSUME Inv, Strong, dispatch_stale PROVE Strong'
  OBVIOUS
<1> DEFINE r == CommitStale(coordinator)
<1>1. /\ phase = "play" /\ HasCurrent /\ UNCHANGED <<song, mode>> /\ mode = "planner"
      /\ Stale(coordinator) /\ Committed(r)
  BY DEF dispatch_stale, Playing
<1>2. coordinator.cursor \in DOMAIN song
  BY <1>1, CurrentFrame
<1>3. song \in Songs /\ Compiles(song) /\ Exact(coordinator, song) /\ Fits(coordinator, song)
  BY <1>1, ExactFacts
<1>4. r.ok /\ Exact(r.c, song)
  BY <1>1, <1>2, <1>3, StaleExact
<1>5. phase' = "play" /\ coordinator' = r.c
  BY <1>1, <1>4 DEF Committed
<1>6. ReplayOK'
  BY <1>1 DEF ReplayOK
<1> QED
  BY <1>1, <1>4, <1>5, <1>6, StrongStep

\* A plan never fails and is never refused.
LEMMA PlannedStrong == Inv /\ Strong /\ dispatch_planned => Strong'
<1> SUFFICES ASSUME Inv, Strong, dispatch_planned PROVE Strong'
  OBVIOUS
<1> DEFINE f == Current
           r == CommitSuccess(coordinator, f, Elapsed)
<1>1. phase = "play" /\ HasCurrent /\ UNCHANGED <<song, mode>> /\ mode = "planner"
  BY DEF dispatch_planned, Planning, Playing
<1>2. FrameFits(f, song) /\ FrameOf(coordinator, song, f) /\ coordinator.cursor \in DOMAIN song
  BY <1>1, CurrentFrame
<1>3. /\ song \in Songs /\ Admits(song) /\ Compiles(song) /\ Exact(coordinator, song)
      /\ Fits(coordinator, song) /\ Ledger(coordinator, song)
      /\ PlacedAt(coordinator, song, coordinator.cursor, coordinator.cursor)
  BY <1>1, ExactFacts
<1>4. Frozen(coordinator, f)
  BY <1>2, <1>3, FrozenHolds
<1>5. Outcome(f) = "play"
  <2>1. f = Prepare(coordinator)
    BY <1>1 DEF Current
  <2>2. f.ok /\ Outcome(f) # "deferred"
    BY <1>2, <1>3, <2>1, PlannedFrame, NoDeferral
  <2> QED
    BY <2>2 DEF Outcome
<1>6. Due(f) /\ Committed(r)
  BY <1>4, <1>5 DEF dispatch_planned
<1>7. Target(f) <= clock.now
  BY <1>6 DEF Due
<1> HIDE DEF f
<1>8. Elapsed \in Int /\ f.at <= Elapsed
  BY <1>1, <1>2, <1>7, DueElapsed
<1>9. r.ok /\ Exact(r.c, song)
  BY <1>2, <1>3, <1>8, CommitExact
<1>10. phase' = "play" /\ coordinator' = r.c
  BY <1>6, <1>9 DEF Committed
<1>11. ReplayOK'
  BY <1>1 DEF ReplayOK
<1> QED
  BY <1>1, <1>9, <1>10, <1>11, StrongStep

\* Nor is the recovery of a missed Down.
LEMMA MissedStrong == Inv /\ Strong /\ dispatch_missed => Strong'
<1> SUFFICES ASSUME Inv, Strong, dispatch_missed PROVE Strong'
  OBVIOUS
<1> DEFINE f == Current
           r == CommitMiss(coordinator, f, Elapsed)
<1>1. /\ phase = "play" /\ HasCurrent /\ UNCHANGED <<song, mode>> /\ mode = "planner"
      /\ Due(f) /\ Committed(r)
  BY DEF dispatch_missed, Planned, Planning, Playing
<1>2. FrameFits(f, song) /\ FrameOf(coordinator, song, f)
  BY <1>1, CurrentFrame
<1>3. /\ song \in Songs /\ Admits(song) /\ Exact(coordinator, song)
      /\ Fits(coordinator, song) /\ Ledger(coordinator, song)
  BY <1>1, ExactFacts
<1>4. Target(f) <= clock.now
  BY <1>1 DEF Due
<1> HIDE DEF f
<1>5. Elapsed \in Int /\ f.at <= Elapsed
  BY <1>1, <1>2, <1>4, DueElapsed
<1>6. r.ok /\ Exact(r.c, song)
  BY <1>2, <1>3, <1>5, CommitExact
<1>7. phase' = "play" /\ coordinator' = r.c
  BY <1>1, <1>6 DEF Committed
<1>8. ReplayOK'
  BY <1>1 DEF ReplayOK
<1> QED
  BY <1>1, <1>6, <1>7, <1>8, StrongStep

\* Nor is a pause.
LEMMA PauseStrong == Inv /\ Strong /\ (manual_pause \/ focus_restore) => Strong'
<1> SUFFICES ASSUME Inv, Strong, manual_pause \/ focus_restore PROVE Strong'
  OBVIOUS
<1> DEFINE r == CancelLive(coordinator)
<1>1. phase = "play" /\ UNCHANGED <<song, mode, stream>> /\ Committed(r)
  BY DEF manual_pause, focus_restore, MayPause, Playing, suspend_live_input
<1>2. /\ song \in Songs /\ Compiles(song) /\ Exact(coordinator, song)
      /\ Fits(coordinator, song) /\ Ledger(coordinator, song)
  BY <1>1, ExactFacts
<1>3. r.ok /\ Exact(r.c, song)
  BY <1>2, CancelAccepted
<1>4. phase' = "play" /\ coordinator' = r.c
  BY <1>1, <1>3 DEF Committed
<1>5. r.c.cursor = coordinator.cursor
  BY <1>2, CancelLiveFits DEF LiveCancelled
<1> HIDE DEF r
<1>6. ReplayOK'
  BY <1>1, <1>4, <1>5 DEF Strong, ReplayOK, FrozenAs
<1> QED
  BY <1>1, <1>3, <1>4, <1>6, StrongStep

\* Waiting changes neither ledger nor stream.
LEMMA WaitingStrong ==
    Inv /\ Strong /\ (Tick \/ observe_future \/ admission_rejected \/ focus_pause \/ manual_resume) => Strong'
<1> SUFFICES ASSUME Strong, UNCHANGED <<song, mode, phase, coordinator, stream>> PROVE Strong'
  BY DEF Tick, observe_future, admission_rejected, focus_pause, manual_resume
<1> QED
  BY DEF Strong, ExactOK, SimulationOK, ReplayOK, FrozenAs, NeverRefused

\* Nothing is refused at the end: the checks of the cleanup pass, and a
\* stream is exhausted only with its ledger.
LEMMA EndStrong == Inv /\ Strong /\ (finish \/ stop) => Strong'
<1> SUFFICES ASSUME Inv, Strong, finish \/ stop PROVE Strong'
  OBVIOUS
<1> DEFINE c == coordinator
<1>1. phase = "play"
  BY DEF finish, stop
<1>2. /\ song \in Songs /\ Compiles(song) /\ Exact(c, song) /\ Fits(c, song) /\ Ledger(c, song)
  BY <1>1, ExactFacts
<1>3. Consistent(c) /\ CleanedUp(CancelAll(c))
  BY <1>2, CleanupAccepted
<1>4. ASSUME NEW o, Finalize(o) PROVE phase' = o
  BY <1>3, <1>4 DEF Finalize
<1>5. phase' \in {"finished", "unclean", "stopped"}
  <2>1. CASE stop
    BY <1>4, <2>1 DEF stop
  <2>2. CASE finish
    <3>1. is_finished(c)
      <4> SUFFICES ASSUME ~is_finished(c) PROVE FALSE
        OBVIOUS
      <4>1. ~HasCurrent /\ mode = "prepared"
        BY <2>2 DEF finish
      <4>2. Len(stream.entries) = Len(song) /\ stream.cursor = c.cursor
        BY <1>1, <4>1 DEF Strong, ReplayOK
      <4>3. ~(c.cursor <= Len(song))
        BY <4>1, <4>2 DEF HasCurrent
      <4>4. c.cursor \in Nat /\ Len(song) \in Nat
        BY <1>2, FitsPackets, SongType
      <4>5. c.cursor > Len(song)
        BY <4>3, <4>4
      <4> QED
        BY <1>2, <4>5, PastTheEnd
    <3>2. Finalize(IF Clean(c) THEN "finished" ELSE "unclean")
      BY <2>2, <3>1 DEF finish
    <3> QED
      BY <1>4, <3>2
  <2> QED
    BY <2>1, <2>2
<1> QED
  BY <1>5 DEF Strong, ExactOK, SimulationOK, ReplayOK, NeverRefused

\* A fresh coordinator is exact.
LEMMA NewExact ==
    ASSUME NEW s \in Songs, Compiles(s)
    PROVE  Exact(NewCoordinator(Compile(s)), s) /\ NewCoordinator(Compile(s)).cursor = 1
<1>1. NewCoordinator(Compile(s)).cursor = 1
  BY DEF NewCoordinator
<1> QED
  BY <1>1, NewPlaced, NewCounted DEF Exact

\* Starting.
LEMMA BootStrong == Inv /\ Strong /\ (admit \/ boot) => Strong'
<1> SUFFICES ASSUME Inv, Strong, admit \/ boot PROVE Strong'
  OBVIOUS
<1>1. CASE admit
  <2>1. phase' \in {"ready", "refused"}
    BY <1>1 DEF admit
  <2> QED
    BY <2>1 DEF Strong, ExactOK, SimulationOK, ReplayOK, NeverRefused
<1>2. CASE boot
  <2> DEFINE c == NewCoordinator(Compile(song))
  <2>1. /\ phase = "ready" /\ coordinator' = c /\ UNCHANGED <<song, mode, stream>>
        /\ phase' = IF mode = "prepared" THEN "simulate" ELSE "play"
    BY <1>2 DEF boot
  <2>2. song \in Songs /\ Compiles(song) /\ stream = Empty
    BY <2>1 DEF Inv, PhaseOK, StreamOK, Admits
  <2>3. Exact(c, song) /\ c.cursor = 1 /\ c.packets = Compile(song) /\ c.token = [k \in Keys |-> NoGen]
    BY <2>2, NewExact DEF NewCoordinator
  <2> HIDE DEF c
  <2>4. stream.entries = <<>> /\ stream.cursor = 1 /\ Len(song) \in Nat
    BY <2>2, SongType DEF Empty
  <2>5. FrozenAs(stream, song) /\ Len(stream.entries) = 0
    BY <2>4 DEF FrozenAs
  <2>6. SimulationOK'
    <3>1. 0 = c.cursor - 1 /\ c.cursor <= Len(song) + 1
      BY <2>3, <2>4
    <3>2. FrozenAs(stream, song)'
      BY <2>1, <2>5 DEF FrozenAs
    <3> QED
      BY <2>1, <2>3, <2>4, <2>5, <3>1, <3>2 DEF SimulationOK
  <2>7. ReplayOK'
    BY <2>1 DEF ReplayOK
  <2> QED
    BY <2>1, <2>3, <2>6, <2>7 DEF Strong, ExactOK, NeverRefused
<1> QED
  BY <1>1, <1>2

\* The stream that was frozen has a frame for every packet.
LEMMA StartStrong == Inv /\ Strong /\ start => Strong'
<1> SUFFICES ASSUME Inv, Strong, start PROVE Strong'
  OBVIOUS
<1> DEFINE c == NewCoordinator(Compile(song))
<1>1. /\ phase = "simulate" /\ coordinator' = c /\ UNCHANGED <<song, mode, stream>> /\ phase' = "play"
      /\ coordinator.cursor > Len(coordinator.packets)
  BY DEF start
<1>2. song \in Songs /\ Compiles(song) /\ Fits(coordinator, song)
  BY <1>1 DEF Inv, PhaseOK, LedgerOK, Admits
<1>3. /\ Len(stream.entries) = coordinator.cursor - 1 /\ stream.cursor = 1
      /\ coordinator.cursor <= Len(song) + 1 /\ FrozenAs(stream, song)
  BY <1>1 DEF Strong, SimulationOK
<1>4. Len(coordinator.packets) = Len(song) /\ Len(song) \in Nat /\ coordinator.cursor \in Nat
  BY <1>2, FitsPackets, SongType
<1>5. Len(stream.entries) = Len(song)
  BY <1>1, <1>3, <1>4
<1>6. Exact(c, song) /\ c.cursor = 1
  BY <1>2, NewExact
<1> HIDE DEF c
<1>7. ReplayOK'
  BY <1>1, <1>3, <1>5, <1>6 DEF ReplayOK, FrozenAs
<1> QED
  BY <1>1, <1>6, <1>7, StrongStep

\* A plan made before anything was cancelled or dropped releases exactly
\* what the compiled packet releases.
LEMMA PlanIsCompiled ==
    ASSUME NEW s \in Songs, NEW c, c.packets = Compile(s), c.token = [k \in Keys |-> NoGen],
           c.cursor \in DOMAIN s
    PROVE  /\ Ups(Prepare(c)) = Compile(s)[c.cursor].up_mask
           /\ \A k \in Ups(Prepare(c)) : Prepare(c).ups[k] = Compile(s)[c.cursor].ups[k]
<1> DEFINE f == Prepare(c)
           n == c.cursor
           p == Compile(s)[n]
           owned == {k \in DOMAIN p.ups : p.ups[k] # NoGen}
           tokens == {k \in DOMAIN p.ups \ owned : c.token[k] # NoGen /\ c.location[c.token[k]] = n}
<1>1. DOMAIN p.ups = s[n].ups /\ s[n].ups \subseteq Keys
  BY CompileType, SongType
<1>2. f.ups = [k \in owned \cup tokens |-> IF k \in owned THEN p.ups[k] ELSE c.token[k]]
  BY DEF Prepare
<1>3. tokens = {}
  BY <1>1
<1>4. p.up_mask \subseteq s[n].ups
  BY DEF Compile
<1>5. \A k \in s[n].ups : k \in p.up_mask <=> p.ups[k] # NoGen
  BY UpOwns
<1> HIDE DEF f, p
<1>6. owned = p.up_mask
  BY <1>1, <1>4, <1>5
<1> HIDE DEF tokens, owned
<1>7. f.ups = [k \in p.up_mask |-> p.ups[k]]
  BY <1>2, <1>3, <1>6
<1>8. Ups(f) = p.up_mask /\ \A k \in Ups(f) : f.ups[k] = p.ups[k]
  BY <1>7 DEF Ups
<1> QED
  BY <1>8 DEF f, p

\* The frame f releases what its compiled packet releases.
ReleasesCompiled(f, s) ==
    /\ Ups(f) = Compile(s)[f.packet].up_mask
    /\ \A k \in Ups(f) : f.ups[k] = Compile(s)[f.packet].ups[k]

\* A frame more in the stream.
LEMMA FrozenAppend ==
    ASSUME NEW s \in Songs, NEW x, StreamFits(x, s), FrozenAs(x, s), NEW f,
           f.packet = Len(x.entries) + 1, ReleasesCompiled(f, s),
           NEW y, y = [x EXCEPT !.entries = Append(@, f)]
    PROVE  /\ FrozenAs(y, s) /\ Len(y.entries) = Len(x.entries) + 1 /\ y.cursor = x.cursor
<1> DEFINE e == x.entries
           d == Append(e, f)
<1>1. x = [entries |-> e, cursor |-> x.cursor] /\ e \in Seq({e[i] : i \in DOMAIN e})
  BY DEF StreamFits
<1> DEFINE S == {e[i] : i \in DOMAIN e}
<1>2. y.entries = d /\ y.cursor = x.cursor
  <2> HIDE DEF e, d
  <2>1. y = [x EXCEPT !.entries = d]
    BY DEF d, e
  <2> QED
    BY <1>1, <2>1
<1> HIDE DEF e, S
<1>3. e \in Seq(S \cup {f}) /\ f \in S \cup {f}
  BY <1>1 DEF S
<1>4. /\ Len(d) = Len(e) + 1 /\ DOMAIN d = 1 .. Len(e) + 1 /\ DOMAIN e = 1 .. Len(e) /\ Len(e) \in Nat
      /\ \A i \in 1 .. Len(e) : d[i] = e[i]
      /\ d[Len(e) + 1] = f
  BY <1>3
<1> HIDE DEF d
<1>5. ASSUME NEW i \in DOMAIN d
      PROVE  d[i].packet = i /\ Ups(d[i]) = Compile(s)[i].up_mask
             /\ \A k \in Ups(d[i]) : d[i].ups[k] = Compile(s)[i].ups[k]
  <2>1. CASE i \in 1 .. Len(e)
    BY <1>4, <2>1 DEF FrozenAs, e
  <2>2. CASE i = Len(e) + 1
    BY <1>4, <2>2 DEF ReleasesCompiled, e
  <2> QED
    BY <1>4, <2>1, <2>2
<1> QED
  BY <1>2, <1>4, <1>5 DEF FrozenAs, e

\* The simulated session freezes every packet (build_with_checkpoints).
LEMMA SimulateStrong == Inv /\ Strong /\ simulate => Strong'
<1> SUFFICES ASSUME Inv, Strong, simulate PROVE Strong'
  OBVIOUS
<1> DEFINE c == coordinator
           f == Prepare(c)
           u == CommitUps(c, f, f.at).c
           r == IF Physical(f) THEN CommitSuccess(c, f, f.at) ELSE CommitMetadata(c, f)
<1>1. /\ phase = "simulate" /\ c.cursor <= Len(c.packets) /\ UNCHANGED <<song, mode>>
      /\ coordinator' = r.c /\ stream' = [stream EXCEPT !.entries = Append(@, f)]
      /\ phase' = CASE Outcome(f) # "play" -> Outcome(f)
                    [] Outcome(f) = "play" /\ ~r.ok -> "error"
                    [] OTHER -> "simulate"
  BY DEF simulate
<1>2. /\ song \in Songs /\ Admits(song) /\ Compiles(song) /\ Fits(c, song) /\ Ledger(c, song)
      /\ StreamFits(stream, song) /\ Exact(c, song) /\ PlacedAt(c, song, c.cursor, c.cursor)
  BY <1>1 DEF Inv, PhaseOK, LedgerOK, StreamOK, Strong, ExactOK, Exact, Admits
<1>3. /\ mode = "prepared" /\ c.packets = Compile(song) /\ c.token = [k \in Keys |-> NoGen]
      /\ Len(stream.entries) = c.cursor - 1 /\ stream.cursor = 1 /\ FrozenAs(stream, song)
  BY <1>1 DEF Strong, SimulationOK
<1>4. /\ c.cursor \in DOMAIN song /\ c.cursor \in Nat \ {0} /\ Len(c.packets) = Len(song)
      /\ Len(song) \in Nat
  BY <1>1, <1>2, FitsPackets, SongType
<1>5. FrameFits(f, song) /\ f.packet = c.cursor /\ FrameOf(c, song, f) /\ f.ok
  BY <1>2, <1>4, PrepareFits, PlannedFrame
<1>6. Outcome(f) = "play"
  <2>1. Outcome(f) # "deferred"
    BY <1>2, <1>4, NoDeferral
  <2> QED
    BY <1>5, <2>1 DEF Outcome
<1>7. ReleasesCompiled(f, song)
  BY <1>2, <1>3, <1>4, <1>5, PlanIsCompiled DEF ReleasesCompiled
<1> HIDE DEF f
<1>8. f.at \in Int /\ f.at <= f.at
  <2>1. f.at \in Nat
    BY <1>2, <1>5, FrameDowns
  <2> QED
    BY <2>1
<1>9. UpsCommitted(c, f, u, song)
  BY <1>2, <1>5, CommitUpsFits
<1>10. /\ r.ok /\ Exact(r.c, song) /\ r.c.cursor = c.cursor + 1
       /\ r.c.packets = u.packets /\ r.c.token = u.token
  <2>1. CASE Physical(f)
    <3>1. r = CommitSuccess(c, f, f.at)
      BY <2>1
    <3>2. r.ok /\ Exact(r.c, song) /\ r.c.cursor = c.cursor + 1
      BY <1>2, <1>5, <1>8, <3>1, CommitExact
    <3>3. DownsCommitted(u, f, r.c, song)
      BY <1>2, <1>5, <3>1, CommitSuccessFits
    <3> QED
      BY <3>2, <3>3 DEF DownsCommitted
  <2>2. CASE ~Physical(f)
    <3>1. r = CommitMetadata(c, f)
      BY <2>2
    <3>2. r.ok /\ Exact(r.c, song) /\ r.c.cursor = c.cursor + 1
      BY <1>2, <1>5, <2>2, <3>1, MetadataExact
    <3>3. CursorMoved(u, r.c, song)
      BY <1>2, <1>5, <3>1, CommitMetadataFits
    <3> QED
      BY <3>2, <3>3 DEF CursorMoved
  <2> QED
    BY <2>1, <2>2
<1>11. r.c.packets = Compile(song) /\ r.c.token = [k \in Keys |-> NoGen]
  <2>1. u.packets = c.packets /\ u.token = [k \in Keys |-> IF k \in SpentUps(c, f) THEN NoGen ELSE c.token[k]]
    BY <1>9 DEF UpsCommitted
  <2>2. u.token = [k \in Keys |-> NoGen]
    BY <1>3, <2>1
  <2> QED
    BY <1>3, <1>10, <2>1, <2>2
<1> HIDE DEF r, u
<1>12. phase' = "simulate"
  BY <1>1, <1>6, <1>10
<1>13. /\ FrozenAs(stream', song) /\ Len(stream'.entries) = Len(stream.entries) + 1
       /\ stream'.cursor = stream.cursor
  <2>1. f.packet = Len(stream.entries) + 1
    BY <1>3, <1>4, <1>5
  <2>2. song \in Songs /\ StreamFits(stream, song) /\ FrozenAs(stream, song)
    BY <1>2, <1>3
  <2>3. stream' = [stream EXCEPT !.entries = Append(@, f)]
    BY <1>1
  <2> QED
    BY <1>7, <2>1, <2>2, <2>3, FrozenAppend
<1>14. SimulationOK'
  <2>1. Len(stream'.entries) = coordinator'.cursor - 1 /\ coordinator'.cursor <= Len(song) + 1
    BY <1>1, <1>3, <1>4, <1>10, <1>13
  <2>2. song' = song /\ mode' = mode
    BY <1>1
  <2> QED
    BY <1>1, <1>3, <1>11, <1>13, <2>1, <2>2 DEF SimulationOK
<1>15. Exact(coordinator', song') /\ ReplayOK'
  BY <1>1, <1>10, <1>12 DEF ReplayOK
<1> QED
  BY <1>12, <1>14, <1>15 DEF Strong, ExactOK, NeverRefused

\* Every step keeps the ledger exact.
LEMMA NextStrong == Inv /\ Strong /\ [Next]_vars => Strong'
<1> SUFFICES ASSUME Inv, Strong, [Next]_vars PROVE Strong'
  OBVIOUS
<1>1. CASE UNCHANGED vars
  BY <1>1 DEF vars, Strong, ExactOK, SimulationOK, ReplayOK, FrozenAs, NeverRefused
<1>2. CASE Next
  <2>1. CASE admit \/ boot \/ simulate \/ start
    BY <2>1, BootStrong, SimulateStrong, StartStrong
  <2>2. CASE Tick \/ observe_future \/ admission_rejected \/ focus_pause \/ manual_resume
    BY <2>2, WaitingStrong
  <2>3. CASE Dispatch
    BY <2>3, PreparedStrong, MetadataStrong, StaleStrong, PlannedStrong, MissedStrong, EndStrong DEF Dispatch
  <2>4. CASE manual_pause \/ focus_restore
    BY <2>4, PauseStrong
  <2>5. CASE stop
    BY <2>5, EndStrong
  <2> QED
    BY <1>2, <2>1, <2>2, <2>3, <2>4, <2>5 DEF Next, Resume
<1> QED
  BY <1>1, <1>2

\* NothingIsRefused: whatever was paused, late or dropped, the coordinator
\* refuses no plan, commit, cancellation or cleanup, and the stream of frozen
\* commits ends with the ledger: no admitted song ends in an error
\* (validate_frozen_authored_commit, check_invariants and
\* check_post_cleanup_invariants, prepared_stream_requires_terminal).
THEOREM NothingIsRefused == Spec => []NeverRefused
<1>1. Init => Strong
  BY DEF Init, Strong, ExactOK, SimulationOK, ReplayOK, NeverRefused
<1>2. Inv /\ Strong /\ [Next]_vars => Strong'
  BY NextStrong
<1>3. Strong => NeverRefused
  BY DEF Strong
<1> QED
  BY <1>1, <1>2, <1>3, Invariant, PTL DEF Spec

============================================================================
