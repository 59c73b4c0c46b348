-------------------------- MODULE StatsAccumulator --------------------------
(***************************************************************************)
(* The slice statistics of a benchmark run: StatsAccumulator<A> and its    *)
(* RollingJitterWindow (src/src/Core/src/Public/StatsAccumulator.h).       *)
(*                                                                         *)
(* The runner times one calibration slice, derives the stopping knobs from *)
(* it, then alternates feedSlice and shouldStop until shouldStop answers   *)
(* true.  A slice slower than the rolling median by more than the jitter   *)
(* threshold is discarded; a full run of discards that agree with each     *)
(* other is taken for a new steady speed and becomes the new baseline.     *)
(*                                                                         *)
(* Wall times are natural numbers of some tick and thresholds are          *)
(* percentages, so every comparison of doubles becomes an exact comparison *)
(* of products.                                                            *)
(***************************************************************************)
EXTENDS Integers, Sequences, FiniteSets, WelfordState

CONSTANTS
  WallTimes,         \* the wall times a slice can show
  JitterWindow,      \* JITTER_WINDOW
  MinSamples,        \* JITTER_WINDOW_MIN_SAMPLES
  MaxLevelShifts,    \* MAX_LEVEL_SHIFTS
  JitterPct,         \* m_jitterThreshold, in percent
  Tiers,             \* the [minSlices, maxSlices] the calibration time selects from
  DerivedCvPct,      \* the derived cvThreshold, in percent
  DerivedConsecutiveCap,
  TotalCapShare,     \* totalDiscardCap is maxSlices \div TotalCapShare ...
  TotalCapFloor,     \* ... but at least TotalCapFloor
  ConfigKnobs        \* the overrides a Config may carry; a zero field overrides nothing

Knobs ==
  [cvPct : Nat, minSlices : Nat \ {0}, maxSlices : Nat \ {0},
   consecutiveDiscardCap : Nat \ {0}, totalDiscardCap : Nat \ {0}]

ConfigKnobsSpace ==
  [cvPct : Nat, minSlices : Nat, maxSlices : Nat,
   consecutiveDiscardCap : Nat, totalDiscardCap : Nat]

\* The constants of the header are positive, and so are the derived knobs.
ASSUME StatsAssumption ==
  /\ WallTimes \subseteq Nat
  /\ JitterWindow \in Nat \ {0} /\ MinSamples \in Nat \ {0} /\ MaxLevelShifts \in Nat
  /\ JitterPct \in Nat /\ DerivedCvPct \in Nat
  /\ Tiers \subseteq [minSlices : Nat \ {0}, maxSlices : Nat \ {0}]
  /\ DerivedConsecutiveCap \in Nat \ {0}
  /\ TotalCapShare \in Nat \ {0} /\ TotalCapFloor \in Nat \ {0}
  /\ ConfigKnobs \subseteq ConfigKnobsSpace

VARIABLES
  phase,                  \* which call the runner makes next
  knobs,                  \* m_knobs
  acceptedSlices,
  consecutiveDiscards,
  totalDiscards,
  maxConsecutiveDiscards,
  levelShifts,
  discardRun,             \* the ring m_discardRun
  window,                 \* m_jitterWindow
  welford,                \* m_cpuWallTime
  runFailed,
  stopReason,
  recent                  \* history: the newest baseline samples, oldest first

counters == <<acceptedSlices, consecutiveDiscards, totalDiscards, levelShifts>>
baseline == <<discardRun, window, welford, recent>>
verdict  == <<runFailed, stopReason>>
vars == <<phase, knobs, counters, maxConsecutiveDiscards, baseline, verdict>>

StopReasons == {"CvConverged", "HardCapReached", "ConsecutiveDiscards", "TotalDiscards",
                "NotStopped"}

Slots == 0 .. JitterWindow - 1

\* What a slot of a ring holds; both rings start out zeroed.
Samples == WallTimes \union {0}

Windows == [slots : [Slots -> Samples], count : 0 .. JitterWindow, next : Slots]

Lesser(m, n) == IF m < n THEN m ELSE n

-----------------------------------------------------------------------------
(* RollingJitterWindow. *)

EmptyWindow == [slots |-> [i \in Slots |-> 0], count |-> 0, next |-> 0]

\* Slip: the full window keeps overwriting one slot.
Push_StuckNext(w, t) ==
  [slots |-> [w.slots EXCEPT ![w.next] = t],
   count |-> Lesser(w.count + 1, JitterWindow),
   next  |-> IF w.count < JitterWindow THEN (w.next + 1) % JitterWindow ELSE w.next]

Push(w, t) ==
  [slots |-> [w.slots EXCEPT ![w.next] = t],
   count |-> Lesser(w.count + 1, JitterWindow),
   next  |-> (w.next + 1) % JitterWindow]

\* sorted[k] of internalMedian: the sample that k others of the window may precede.
Sorted(w, k) ==
  LET held  == 0 .. w.count - 1
      below(v) == Cardinality({i \in held : w.slots[i] < v})
      upTo(v)  == Cardinality({i \in held : w.slots[i] <= v})
  IN  CHOOSE v \in {w.slots[i] : i \in held} : below(v) <= k /\ k < upTo(v)

\* Twice the median, which is a natural number for an even count too.
Median2(w) ==
  LET mid == w.count \div 2
  IN  IF w.count % 2 = 1 THEN 2 * Sorted(w, mid) ELSE Sorted(w, mid - 1) + Sorted(w, mid)

IsJittered(w, t) ==
  /\ w.count >= MinSamples
  /\ Median2(w) > 0
  /\ 100 * (2 * t - Median2(w)) > JitterPct * Median2(w)

-----------------------------------------------------------------------------
(* Discard runs and level shifts. *)

\* The ring slots a run of n discards has written.
RunSlots(n) == 0 .. Lesser(n, JitterWindow) - 1

\* Slip: compares every discard with the first one only.
DiscardRunIsLevel_FirstOnly(ring, n) ==
  \A i \in RunSlots(n) : ring[0] > 0 /\ 100 * (ring[i] - ring[0]) <= JitterPct * ring[0]

DiscardRunIsLevel(ring, n) ==
  \A i, j \in RunSlots(n) :
     ring[j] > 0 /\ 100 * (ring[i] - ring[j]) <= JitterPct * ring[j]

\* Slip: pushes the whole ring, whatever the length of the run.
WindowOfRun_WholeRing(ring, n) ==
  [slots |-> ring, count |-> JitterWindow, next |-> 0]

\* internalRebaseline pushes the ring into a fresh window in slot order.
WindowOfRun(ring, n) ==
  [slots |-> [i \in Slots |-> IF i \in RunSlots(n) THEN ring[i] ELSE 0],
   count |-> Lesser(n, JitterWindow),
   next  |-> Lesser(n, JitterWindow) % JitterWindow]

\* The same discards in the order they were measured.
RunInOrder(ring, n) ==
  LET held == Lesser(n, JitterWindow)
  IN  [i \in 1 .. held |-> ring[(n - held + i - 1) % JitterWindow]]

NewestSamples(s) ==
  IF Len(s) <= JitterWindow THEN s ELSE SubSeq(s, Len(s) - JitterWindow + 1, Len(s))

-----------------------------------------------------------------------------
Init ==
  /\ phase = "calibrating"
  /\ knobs = [cvPct |-> 0, minSlices |-> 0, maxSlices |-> 0,
              consecutiveDiscardCap |-> 0, totalDiscardCap |-> 0]
  /\ acceptedSlices = 0 /\ consecutiveDiscards = 0 /\ totalDiscards = 0
  /\ maxConsecutiveDiscards = 0 /\ levelShifts = 0
  /\ discardRun = [i \in Slots |-> 0]
  /\ window = EmptyWindow /\ welford = EmptyWelford /\ recent = <<>>
  /\ runFailed = FALSE /\ stopReason = "NotStopped"

Override(config, derived) == IF config > 0 THEN config ELSE derived

\* The total cap is taken from the tier's maxSlices, before maxSlices is overridden.
DerivedKnobs(tier, config) ==
  LET share == tier.maxSlices \div TotalCapShare
      cap   == IF share > TotalCapFloor THEN share ELSE TotalCapFloor
  IN  [cvPct |-> Override(config.cvPct, DerivedCvPct),
       minSlices |-> Override(config.minSlices, tier.minSlices),
       maxSlices |-> Override(config.maxSlices, tier.maxSlices),
       consecutiveDiscardCap |->
          Override(config.consecutiveDiscardCap, DerivedConsecutiveCap),
       totalDiscardCap |-> Override(config.totalDiscardCap, cap)]

\* Slip: the calibration slice is fed to the window.
DeriveKnobs_Fed(tier, config) ==
  /\ phase = "calibrating"
  /\ knobs' = DerivedKnobs(tier, config)
  /\ phase' = "slicing"
  /\ \E t \in WallTimes : window' = Push(window, t)
  /\ UNCHANGED <<counters, maxConsecutiveDiscards, discardRun, welford, recent, verdict>>

\* The calibration wall time only selects the tier.
DeriveKnobs(tier, config) ==
  /\ phase = "calibrating"
  /\ knobs' = DerivedKnobs(tier, config)
  /\ phase' = "slicing"
  /\ UNCHANGED <<counters, maxConsecutiveDiscards, baseline, verdict>>

-----------------------------------------------------------------------------
(* feedSlice(t): accepted, discarded, or discarded with a level shift. *)

\* Slip: an accepted slice does not end the run of discards.
AcceptSlice_RunGoesOn(t) ==
  /\ phase = "slicing"
  /\ ~IsJittered(window, t)
  /\ window' = Push(window, t)
  /\ recent' = NewestSamples(Append(recent, t))
  /\ welford' = Update(welford, t)
  /\ acceptedSlices' = acceptedSlices + 1
  /\ phase' = "deciding"
  /\ UNCHANGED <<knobs, consecutiveDiscards, totalDiscards, maxConsecutiveDiscards, levelShifts,
                 discardRun, verdict>>

AcceptSlice(t) ==
  /\ phase = "slicing"
  /\ ~IsJittered(window, t)
  /\ consecutiveDiscards' = 0
  /\ window' = Push(window, t)
  /\ recent' = NewestSamples(Append(recent, t))
  /\ welford' = Update(welford, t)
  /\ acceptedSlices' = acceptedSlices + 1
  /\ phase' = "deciding"
  /\ UNCHANGED <<knobs, totalDiscards, maxConsecutiveDiscards, levelShifts, discardRun, verdict>>

\* What every discard writes before it looks for a level shift.
Discard(t) ==
  /\ phase = "slicing"
  /\ IsJittered(window, t)
  /\ discardRun' = [discardRun EXCEPT ![consecutiveDiscards % JitterWindow] = t]
  /\ maxConsecutiveDiscards' =
       IF consecutiveDiscards + 1 > maxConsecutiveDiscards THEN consecutiveDiscards + 1
       ELSE maxConsecutiveDiscards
  /\ phase' = "deciding"
  /\ UNCHANGED <<knobs, verdict>>

LevelShiftDue ==
  /\ consecutiveDiscards + 1 >= knobs.consecutiveDiscardCap
  /\ levelShifts < MaxLevelShifts
  /\ DiscardRunIsLevel(discardRun', consecutiveDiscards + 1)

DiscardSlice(t) ==
  /\ Discard(t)
  /\ ~LevelShiftDue
  /\ totalDiscards' = totalDiscards + 1
  /\ consecutiveDiscards' = consecutiveDiscards + 1
  /\ UNCHANGED <<acceptedSlices, levelShifts, window, welford, recent>>

\* What a shift does to the baseline, whatever it does to the counters.
ShiftBaseline(t) ==
  /\ Discard(t)
  /\ LevelShiftDue
  /\ window' = WindowOfRun(discardRun', consecutiveDiscards + 1)
  /\ recent' = RunInOrder(discardRun', consecutiveDiscards + 1)

\* Slip: takes the run back before its last discard is counted.
ShiftLevel_Early(t) ==
  /\ ShiftBaseline(t)
  /\ welford' = EmptyWelford /\ acceptedSlices' = 0
  /\ totalDiscards' = totalDiscards - (consecutiveDiscards + 1)
  /\ consecutiveDiscards' = 0
  /\ levelShifts' = levelShifts + 1

\* Slip: the run of discards survives the shift.
ShiftLevel_KeepsRun(t) ==
  /\ ShiftBaseline(t)
  /\ welford' = EmptyWelford /\ acceptedSlices' = 0
  /\ totalDiscards' = totalDiscards - consecutiveDiscards
  /\ consecutiveDiscards' = consecutiveDiscards + 1
  /\ levelShifts' = levelShifts + 1

\* Slip: the shift is not counted.
ShiftLevel_Uncounted(t) ==
  /\ ShiftBaseline(t)
  /\ welford' = EmptyWelford /\ acceptedSlices' = 0
  /\ totalDiscards' = totalDiscards - consecutiveDiscards
  /\ consecutiveDiscards' = 0
  /\ UNCHANGED levelShifts

\* Slip: the discards of the run stay in the total.
ShiftLevel_NotTakenBack(t) ==
  /\ ShiftBaseline(t)
  /\ welford' = EmptyWelford /\ acceptedSlices' = 0
  /\ totalDiscards' = totalDiscards + 1
  /\ consecutiveDiscards' = 0
  /\ levelShifts' = levelShifts + 1

\* Slip: the slices of the old level stay in the mean.
ShiftLevel_KeepsMean(t) ==
  /\ ShiftBaseline(t)
  /\ totalDiscards' = totalDiscards - consecutiveDiscards
  /\ consecutiveDiscards' = 0
  /\ levelShifts' = levelShifts + 1
  /\ UNCHANGED <<welford, acceptedSlices>>

\* internalRebaseline: the run's discards are taken back and its slices become the baseline.
ShiftLevel(t) ==
  /\ ShiftBaseline(t)
  /\ welford' = EmptyWelford /\ acceptedSlices' = 0
  /\ totalDiscards' = (totalDiscards + 1) - (consecutiveDiscards + 1)
  /\ consecutiveDiscards' = 0
  /\ levelShifts' = levelShifts + 1

FeedSlice(t) == AcceptSlice(t) \/ DiscardSlice(t) \/ ShiftLevel(t)

-----------------------------------------------------------------------------
(* shouldStop(): the first reason that applies, in this order. *)

TooManyInARow == consecutiveDiscards >= knobs.consecutiveDiscardCap
TooManyInAll  == totalDiscards >= knobs.totalDiscardCap
AtHardCap     == acceptedSlices >= knobs.maxSlices
Converged     == acceptedSlices >= knobs.minSlices /\ CvWithin(welford, knobs.cvPct)

Stop(reason, failed) ==
  /\ phase = "deciding"
  /\ stopReason' = reason
  /\ runFailed' = (runFailed \/ failed)
  /\ phase' = "stopped"
  /\ UNCHANGED <<knobs, counters, maxConsecutiveDiscards, baseline>>

StopConsecutive == TooManyInARow /\ Stop("ConsecutiveDiscards", TRUE)

StopTotal == ~TooManyInARow /\ TooManyInAll /\ Stop("TotalDiscards", TRUE)

StopHardCap ==
  ~TooManyInARow /\ ~TooManyInAll /\ AtHardCap /\ Stop("HardCapReached", FALSE)

StopConverged ==
  /\ ~TooManyInARow /\ ~TooManyInAll /\ ~AtHardCap /\ Converged
  /\ Stop("CvConverged", FALSE)

KeepGoing ==
  /\ phase = "deciding"
  /\ ~TooManyInARow /\ ~TooManyInAll /\ ~AtHardCap /\ ~Converged
  /\ phase' = "slicing"
  /\ UNCHANGED <<knobs, counters, maxConsecutiveDiscards, baseline, verdict>>

ShouldStop == StopConsecutive \/ StopTotal \/ StopHardCap \/ StopConverged \/ KeepGoing

\* assembleResult: the fields that tell how the loop went.
Result ==
  [sliceCount |-> acceptedSlices, stopReason |-> stopReason, runFailed |-> runFailed,
   totalDiscards |-> totalDiscards, maxConsecutiveDiscards |-> maxConsecutiveDiscards,
   levelShifts |-> levelShifts,
   finalSliceWallTime |-> [sum |-> welford.sum, count |-> welford.count],
   medianSliceWallTime |-> IF window.count = 0 THEN 0 ELSE Median2(window)]

Next ==
  \/ \E tier \in Tiers, config \in ConfigKnobs : DeriveKnobs(tier, config)
  \/ \E t \in WallTimes : FeedSlice(t)
  \/ ShouldStop

\* The run is one thread that never waits: the loop keeps turning until it stops.
Spec == Init /\ [][Next]_vars /\ WF_vars(Next)

-----------------------------------------------------------------------------
(* Properties. *)

\* Every variable keeps its type; in particular no counter is ever taken below zero.
TypeOK ==
  /\ phase \in {"calibrating", "slicing", "deciding", "stopped"}
  /\ phase # "calibrating" => knobs \in Knobs
  /\ acceptedSlices \in Nat /\ consecutiveDiscards \in Nat /\ totalDiscards \in Nat
  /\ maxConsecutiveDiscards \in Nat
  /\ levelShifts \in 0 .. MaxLevelShifts
  /\ discardRun \in [Slots -> Samples]
  /\ window \in Windows
  /\ welford \in [count : Nat, sum : Nat, sumSq : Nat]
  /\ runFailed \in BOOLEAN
  /\ stopReason \in StopReasons
  /\ recent \in Seq(Samples)

\* The unsigned subtraction of internalRebaseline (totalDiscards minus the current run) is
\* safe because the current run is always part of the total, whatever shifts, accepts and
\* discards came before; and the discards in hand never outgrow the cap that ends the run.
DiscardsAreAccounted ==
  /\ consecutiveDiscards <= totalDiscards
  /\ consecutiveDiscards <= maxConsecutiveDiscards
  /\ phase # "calibrating" =>
        /\ maxConsecutiveDiscards <= knobs.consecutiveDiscardCap
        /\ totalDiscards <= knobs.totalDiscardCap
  /\ phase = "slicing" =>
        /\ consecutiveDiscards < knobs.consecutiveDiscardCap
        /\ totalDiscards < knobs.totalDiscardCap
        /\ acceptedSlices < knobs.maxSlices

\* m_discardRun is never cleared, only overwritten: every slot that internalDiscardRunIsLevel
\* and internalRebaseline would read now was written by the current run, so it is an outlier
\* of the current baseline, not a leftover of an earlier run or level.
DiscardRunIsSlower ==
  \A i \in RunSlots(consecutiveDiscards) : IsJittered(window, discardRun[i])

\* A level shift only ever moves the baseline to a slower speed: each sample of the new
\* window is a slice that the old window called an outlier.
LevelShiftIsSlower ==
  [][levelShifts' # levelShifts =>
        \A i \in 0 .. window'.count - 1 : IsJittered(window, window'.slots[i])]_vars

\* A level shift lands on a steady speed: the new window calls none of its own samples an
\* outlier, so a machine that stays at the new speed is not discarded any more.
ShiftedBaselineIsSteady ==
  [][levelShifts' # levelShifts =>
        \A i \in 0 .. window'.count - 1 : ~IsJittered(window', window'.slots[i])]_vars

\* "Compares each slice against the median of the last JITTER_WINDOW accepted slices": the
\* ring of the window holds exactly the newest baseline samples, those of the last shift
\* included, however pushes, wrap-around and rebaselining interleave.
WindowHoldsNewest ==
  /\ window.count = Len(recent)
  /\ \A t \in WallTimes :
        Cardinality({i \in 0 .. window.count - 1 : window.slots[i] = t})
          = Cardinality({i \in DOMAIN recent : recent[i] = t})

\* What is left of the run at most, in slices: each level shift left may start over the
\* accepted slices and take back a run of discards.
Budget ==
  (MaxLevelShifts - levelShifts) * (knobs.maxSlices + knobs.consecutiveDiscardCap)
    + (knobs.maxSlices - acceptedSlices) + (knobs.totalDiscardCap - totalDiscards)

\* The slice loop has no timer: only this bounds it.  Every slice, accepted, discarded or
\* starting a new level, uses up some of the budget, and the budget never runs negative.
EverySliceCounts ==
  [][phase = "slicing" /\ phase' = "deciding" => 0 <= Budget' /\ Budget' < Budget]_vars

\* Whatever wall times the machine shows, the loop stops.
Terminates == <>(phase = "stopped")
=============================================================================
