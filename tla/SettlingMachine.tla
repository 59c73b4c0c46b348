--------------------------- MODULE SettlingMachine ---------------------------
(***************************************************************************)
(* StatsAccumulator on a machine that settles: what its level shifts are   *)
(* for.  The comment over internalDiscardRunIsLevel describes the machine  *)
(* ("settling at a new speed (laptop clocks move ~1.5x), not interference; *)
(* spikes from interrupts don't line up like this"); this module states it *)
(* as an environment: the clock slows down a few times, each speed is held *)
(* long enough to be recognised, and interrupts hit single slices between  *)
(* the slow-downs.  Under it a run must neither fail nor mix two speeds.   *)
(***************************************************************************)
EXTENDS StatsAccumulator

CONSTANTS
  Speeds,      \* the machine's speeds, fastest first, each as the wall times it shows
  SpikeTime,   \* the wall time of a slice an interrupt hit
  SpikeLimit,  \* how many slices of a run interrupts may hit
  Hold         \* slices a speed lasts before the machine may slow down again

VARIABLES
  speed,       \* index of the current speed
  held,        \* slices measured at this speed, counted up to Hold
  spikes,      \* slices hit by an interrupt so far
  mixed        \* history: the speeds of the slices in the mean; 0 is an interrupt

machine == <<speed, held, spikes, mixed>>

\* Speeds agree within themselves, differ by more than the threshold from one to the next,
\* and are fewer than the shifts a run may make.
ASSUME MachineAssumption ==
  /\ Speeds \in Seq(SUBSET WallTimes) \ {<<>>}
  /\ Len(Speeds) <= MaxLevelShifts + 1
  /\ \A k \in DOMAIN Speeds :
        /\ Speeds[k] \subseteq WallTimes \ {0}
        /\ \A s, t \in Speeds[k] : 100 * (s - t) <= JitterPct * t
  /\ \A k \in 2 .. Len(Speeds) :
        \A s \in Speeds[k - 1], t \in Speeds[k] : 100 * (t - s) > JitterPct * s
  /\ SpikeTime \in WallTimes /\ SpikeLimit \in Nat /\ Hold \in Nat \ {0}

\* An interrupt shows at every speed, a speed lasts until the window can tell the next one from
\* it, and the interrupts of a run together with one slow-down stay below the caps.
ASSUME SettlingAssumption ==
  /\ \A k \in DOMAIN Speeds : \A s \in Speeds[k] : 100 * (SpikeTime - s) > JitterPct * s
  /\ MinSamples <= JitterWindow /\ MinSamples <= Hold
  /\ \A tier \in Tiers, config \in ConfigKnobs :
        LET derived == DerivedKnobs(tier, config)
        IN  /\ derived.consecutiveDiscardCap >= 2
            /\ SpikeLimit + derived.consecutiveDiscardCap <= derived.totalDiscardCap

MachineInit ==
  /\ Init
  /\ speed = 1 /\ held = 0 /\ spikes = 0 /\ mixed = {}

\* Which speeds the mean is made of after a slice of speed s was fed.
Mix(s) ==
  mixed' = IF welford'.count = 0 THEN {}
           ELSE IF welford'.count > welford.count THEN mixed \union {s}
           ELSE mixed

SteadySlice ==
  /\ \E t \in Speeds[speed] : FeedSlice(t)
  /\ Mix(speed)
  /\ held' = Lesser(held + 1, Hold)
  /\ UNCHANGED <<speed, spikes>>

\* An interrupt hits a slice at a speed the baseline already knows, alone.
SpikedSlice ==
  /\ spikes < SpikeLimit /\ held = Hold /\ consecutiveDiscards = 0
  /\ FeedSlice(SpikeTime)
  /\ Mix(0)
  /\ spikes' = spikes + 1
  /\ UNCHANGED <<speed, held>>

\* The clock drops between two slices, not in the middle of an interrupt's burst.
SlowDown ==
  /\ phase = "slicing"
  /\ speed < Len(Speeds) /\ held = Hold /\ consecutiveDiscards = 0
  /\ speed' = speed + 1 /\ held' = 0
  /\ UNCHANGED <<vars, spikes, mixed>>

MachineNext ==
  \/ /\ \/ \E tier \in Tiers, config \in ConfigKnobs : DeriveKnobs(tier, config)
        \/ ShouldStop
     /\ UNCHANGED machine
  \/ SteadySlice
  \/ SpikedSlice
  \/ SlowDown

MachineSpec == MachineInit /\ [][MachineNext]_<<vars, machine>>

\* A machine that settles never fails its run: the discards of each slow-down are taken back
\* in time, and the interrupts alone stay below both caps.
SettlingNeverFails == ~runFailed

\* "Measures only the new level: mixing two clock speeds into one mean would report
\* neither": the mean is made of slices of one speed, and of no interrupt, at every moment.
MeanIsOneSpeed == Cardinality(mixed) <= 1 /\ 0 \notin mixed
=============================================================================
