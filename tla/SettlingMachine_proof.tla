------------------------ MODULE SettlingMachine_proof ------------------------
(***************************************************************************)
(* A machine that settles never fails its run and never mixes two speeds   *)
(* into one mean, whatever its speeds, the window, the caps and the        *)
(* interrupts, as long as MachineAssumption and SettlingAssumption hold.   *)
(***************************************************************************)
EXTENDS SettlingMachine, StatsAccumulator_proof

HoldsOnly(w, S) == \A i \in 0 .. w.count - 1 : w.slots[i] \in S

\* A window that is not full fills up slot by slot.
Filling(w) == w.count < JitterWindow => w.next = w.count

MachineTypeOK ==
  /\ speed \in DOMAIN Speeds /\ held \in 0 .. Hold /\ spikes \in 0 .. SpikeLimit
  /\ Filling(window)

\* The baseline knows the current speed; a discard in hand is an interrupt.
Settled ==
  /\ HoldsOnly(window, Speeds[speed]) /\ window.count >= Lesser(held, JitterWindow)
  /\ consecutiveDiscards <= 1
  /\ levelShifts <= speed - 1
  /\ totalDiscards <= spikes
  /\ mixed \subseteq {speed}

\* The clock dropped and every slice since is a discard of the one run in hand.
Moving ==
  /\ speed > 1 /\ held <= consecutiveDiscards
  /\ HoldsOnly(window, Speeds[speed - 1]) /\ window.count >= MinSamples
  /\ \A i \in RunSlots(consecutiveDiscards) : discardRun[i] \in Speeds[speed]
  /\ levelShifts <= speed - 2
  /\ totalDiscards - consecutiveDiscards <= spikes
  /\ mixed \subseteq {speed - 1}

CapsLeaveRoom ==
  phase # "calibrating" =>
     /\ knobs.consecutiveDiscardCap >= 2
     /\ SpikeLimit + knobs.consecutiveDiscardCap <= knobs.totalDiscardCap

\* No run of discards reaches the cap: at the cap it shifts.
BelowCap == phase # "calibrating" => consecutiveDiscards < knobs.consecutiveDiscardCap

MInv ==
  /\ Inv /\ MachineTypeOK /\ CapsLeaveRoom /\ BelowCap
  /\ Settled \/ Moving
  /\ ~runFailed

-----------------------------------------------------------------------------
(* What the window says of a slice, by the speeds alone.                    *)

\* The speeds are sets of positive wall times, and what the assumptions say of them.
LEMMA SpeedFacts ==
  /\ Len(Speeds) \in Nat /\ DOMAIN Speeds = 1 .. Len(Speeds) /\ 1 \in DOMAIN Speeds
  /\ Len(Speeds) <= MaxLevelShifts + 1
  /\ \A k \in DOMAIN Speeds : \A s \in Speeds[k] : s \in WallTimes /\ s \in Nat /\ s > 0
  /\ \A k \in DOMAIN Speeds : \A s, t \in Speeds[k] : 100 * (s - t) <= JitterPct * t
  /\ SpikeTime \in WallTimes /\ SpikeTime \in Nat
<1>1. Speeds \in Seq(SUBSET WallTimes) /\ Speeds # <<>>
  BY MachineAssumption
<1>2. Len(Speeds) \in Nat /\ DOMAIN Speeds = 1 .. Len(Speeds) /\ Len(Speeds) # 0
  BY <1>1
<1>3. 1 \in DOMAIN Speeds
  BY <1>2
<1>4. ASSUME NEW k \in DOMAIN Speeds, NEW s \in Speeds[k]
      PROVE  s \in WallTimes /\ s \in Nat /\ s > 0
  <2>1. s \in WallTimes \ {0}
    BY MachineAssumption
  <2> QED
    BY <2>1, StatsAssumption
<1> QED
  BY <1>2, <1>3, <1>4, MachineAssumption, StatsAssumption

\* A slice at the speed the baseline knows is accepted.
LEMMA OwnSpeedIsAccepted ==
  ASSUME NEW w \in Windows, NEW k \in DOMAIN Speeds, HoldsOnly(w, Speeds[k]), NEW t \in Speeds[k]
  PROVE  ~IsJittered(w, t)
<1>1. w.count \in Nat /\ t \in Nat
  BY SamplesAreNatural, SpeedFacts
<1>2. CASE w.count = 0
  BY <1>2, StatsAssumption DEF IsJittered
<1>3. CASE w.count > 0
  <2>1. \A i \in 0 .. w.count - 1 : 100 * (t - w.slots[i]) <= JitterPct * w.slots[i]
    BY SpeedFacts DEF HoldsOnly
  <2> QED
    BY <1>1, <1>3, <2>1, NearEverySampleIsNotJittered
<1> QED
  BY <1>1, <1>2, <1>3

\* A slice that is far above every sample of a window that can judge is discarded.
LEMMA FarAboveIsJittered ==
  ASSUME NEW w \in Windows, w.count >= MinSamples, NEW t \in Nat,
         \A i \in 0 .. w.count - 1 :
            w.slots[i] > 0 /\ 100 * (t - w.slots[i]) > JitterPct * w.slots[i]
  PROVE  IsJittered(w, t)
<1>1. w.count > 0
  BY StatsAssumption, SamplesAreNatural
<1>2. PICK i, j \in 0 .. w.count - 1 : Median2(w) = w.slots[i] + w.slots[j]
  BY <1>1, MedianOfTwo
<1> DEFINE a == w.slots[i]
           b == w.slots[j]
<1>3. a \in Nat /\ b \in Nat /\ a > 0 /\ b > 0
  BY SamplesAreNatural
<1>4. 100 * (t - a) > JitterPct * a /\ 100 * (t - b) > JitterPct * b
  OBVIOUS
<1>5. Median2(w) = a + b
  BY <1>2
<1> HIDE DEF a, b
<1>6. JitterPct * a \in Nat /\ JitterPct * b \in Nat
      /\ JitterPct * (a + b) = JitterPct * a + JitterPct * b
  BY <1>3, StatsAssumption
<1>7. 100 * (2 * t - (a + b)) > JitterPct * (a + b)
  BY <1>3, <1>4, <1>6
<1> QED
  BY <1>3, <1>5, <1>7 DEF IsJittered

\* A slice at the next speed is discarded.
LEMMA NextSpeedIsDiscarded ==
  ASSUME NEW w \in Windows, w.count >= MinSamples, NEW k \in 2 .. Len(Speeds),
         HoldsOnly(w, Speeds[k - 1]), NEW t \in Speeds[k]
  PROVE  IsJittered(w, t)
<1>1. k \in DOMAIN Speeds /\ k - 1 \in DOMAIN Speeds
  BY SpeedFacts
<1>2. t \in Nat
  BY <1>1, SpeedFacts
<1>3. ASSUME NEW i \in 0 .. w.count - 1
      PROVE  w.slots[i] > 0 /\ 100 * (t - w.slots[i]) > JitterPct * w.slots[i]
  <2>1. w.slots[i] \in Speeds[k - 1]
    BY DEF HoldsOnly
  <2> QED
    BY <1>1, <2>1, SpeedFacts, MachineAssumption
<1> QED
  BY <1>2, <1>3, FarAboveIsJittered

\* An interrupt is discarded at every speed.
LEMMA SpikeIsDiscarded ==
  ASSUME NEW w \in Windows, w.count >= MinSamples, NEW k \in DOMAIN Speeds,
         HoldsOnly(w, Speeds[k])
  PROVE  IsJittered(w, SpikeTime)
<1>1. ASSUME NEW i \in 0 .. w.count - 1
      PROVE  w.slots[i] > 0 /\ 100 * (SpikeTime - w.slots[i]) > JitterPct * w.slots[i]
  <2>1. w.slots[i] \in Speeds[k]
    BY DEF HoldsOnly
  <2> QED
    BY <2>1, SpeedFacts, SettlingAssumption
<1> QED
  BY <1>1, SpeedFacts, FarAboveIsJittered

\* Pushing a sample of a speed into a window of that speed.
LEMMA PushHolds ==
  ASSUME NEW w \in Windows, Filling(w), NEW S, HoldsOnly(w, S), NEW t \in S
  PROVE  /\ HoldsOnly(Push(w, t), S) /\ Filling(Push(w, t))
         /\ Push(w, t).count = Lesser(w.count + 1, JitterWindow)
<1> DEFINE v == Push(w, t)
<1>1. /\ w.count \in 0 .. JitterWindow /\ w.next \in Slots /\ JitterWindow \in Nat \ {0}
      /\ w.slots \in [Slots -> Samples]
  BY StatsAssumption DEF Windows
<1>2. /\ v.slots = [w.slots EXCEPT ![w.next] = t]
      /\ v.count = Lesser(w.count + 1, JitterWindow)
      /\ v.next = (w.next + 1) % JitterWindow
  BY DEF Push
<1>3. ASSUME NEW i \in 0 .. v.count - 1 PROVE v.slots[i] \in S
  <2>1. i \in Slots /\ (i = w.next \/ i \in 0 .. w.count - 1)
    BY <1>1, <1>2 DEF Lesser, Slots, Filling
  <2>2. CASE i = w.next
    BY <1>1, <1>2, <2>2
  <2>3. CASE i # w.next /\ i \in 0 .. w.count - 1
    <3>1. v.slots[i] = w.slots[i]
      BY <1>1, <1>2, <2>1, <2>3
    <3> QED
      BY <2>3, <3>1 DEF HoldsOnly
  <2> QED
    BY <2>1, <2>2, <2>3
<1>4. Filling(v)
  <2> SUFFICES ASSUME v.count < JitterWindow PROVE v.next = v.count
    BY DEF Filling
  <2>1. w.count + 1 < JitterWindow /\ v.count = w.count + 1 /\ w.next = w.count
    BY <1>1, <1>2 DEF Lesser, Filling
  <2>2. (w.count + 1) % JitterWindow = w.count + 1
    BY <1>1, <2>1, SlotIndex
  <2> QED
    BY <1>2, <2>1, <2>2
<1> QED
  BY <1>2, <1>3, <1>4 DEF HoldsOnly

\* The window a run of discards becomes.
LEMMA RunHolds ==
  ASSUME NEW ring \in [Slots -> Samples], NEW n \in Nat, NEW S,
         \A i \in RunSlots(n) : ring[i] \in S
  PROVE  /\ HoldsOnly(WindowOfRun(ring, n), S) /\ Filling(WindowOfRun(ring, n))
         /\ WindowOfRun(ring, n).count = Lesser(n, JitterWindow)
<1> DEFINE w == WindowOfRun(ring, n)
<1>1. /\ w.count = Lesser(n, JitterWindow) /\ w.next = Lesser(n, JitterWindow) % JitterWindow
      /\ w.slots = [i \in Slots |-> IF i \in RunSlots(n) THEN ring[i] ELSE 0]
  BY DEF WindowOfRun
<1>2. Lesser(n, JitterWindow) \in Nat /\ Lesser(n, JitterWindow) <= JitterWindow
  BY StatsAssumption DEF Lesser
<1>3. ASSUME NEW i \in 0 .. w.count - 1 PROVE w.slots[i] \in S
  <2>1. i \in RunSlots(n) /\ i \in Slots
    BY <1>1, <1>2, StatsAssumption DEF RunSlots, Slots
  <2>2. w.slots[i] = ring[i]
    BY <1>1, <2>1
  <2> QED
    BY <2>1, <2>2
<1>4. Filling(w)
  BY <1>1, <1>2, SlotIndex DEF Filling
<1> QED
  BY <1>1, <1>3, <1>4 DEF HoldsOnly

-----------------------------------------------------------------------------
(* The steps.                                                               *)

LEMMA InitMachine == MachineInit => MInv
<1> SUFFICES ASSUME MachineInit PROVE MInv
  OBVIOUS
<1>1. Inv
  BY InitInv DEF MachineInit
<1>2. /\ speed = 1 /\ held = 0 /\ spikes = 0 /\ mixed = {}
      /\ phase = "calibrating" /\ consecutiveDiscards = 0 /\ totalDiscards = 0
      /\ levelShifts = 0 /\ window.count = 0 /\ window.next = 0 /\ ~runFailed
  BY DEF MachineInit, Init, EmptyWindow
<1>3. MachineTypeOK
  BY <1>2, SpeedFacts, MachineAssumption DEF MachineTypeOK, Filling
<1>4. Settled
  BY <1>2, StatsAssumption DEF Settled, HoldsOnly, Lesser
<1> QED
  BY <1>1, <1>2, <1>3, <1>4 DEF MInv, CapsLeaveRoom, BelowCap

\* The types the steps rely on.
LEMMA MInvTypes ==
  ASSUME MInv
  PROVE  /\ window \in Windows /\ window.count \in Nat /\ discardRun \in [Slots -> Samples]
         /\ consecutiveDiscards \in Nat /\ totalDiscards \in Nat /\ levelShifts \in Nat
         /\ acceptedSlices \in Nat /\ welford.count \in Nat
         /\ speed \in 1 .. Len(Speeds) /\ speed \in DOMAIN Speeds
         /\ held \in 0 .. Hold /\ Hold \in Nat \ {0}
         /\ spikes \in 0 .. SpikeLimit /\ SpikeLimit \in Nat
         /\ phase # "calibrating" =>
               /\ knobs.consecutiveDiscardCap \in Nat /\ knobs.totalDiscardCap \in Nat
<1>1. Inv /\ MachineTypeOK
  BY DEF MInv
<1>2. window \in Windows /\ window.count \in Nat
  BY <1>1, SamplesAreNatural DEF Inv, TypeOK
<1>3. speed \in DOMAIN Speeds /\ speed \in 1 .. Len(Speeds)
  BY <1>1, SpeedFacts DEF MachineTypeOK
<1> QED
  BY <1>1, <1>2, <1>3, MachineAssumption, StatsAssumption
  DEF Inv, TypeOK, MachineTypeOK, Knobs

\* Deriving the knobs: the caps leave room, and nothing has been discarded yet.
LEMMA DeriveKnobsMachine ==
  ASSUME MInv, NEW tier \in Tiers, NEW config \in ConfigKnobs, DeriveKnobs(tier, config),
         UNCHANGED machine
  PROVE  MInv'
<1>1. Inv'
  BY DeriveKnobsInv DEF MInv
<1>2. knobs' = DerivedKnobs(tier, config) /\ consecutiveDiscards' = 0
  BY DEF MInv, Inv, NothingBeforeCalibration, DeriveKnobs, counters
<1>3. CapsLeaveRoom' /\ BelowCap'
  <2>1. knobs' \in Knobs
    BY <1>2, DerivedKnobsType
  <2> QED
    BY <1>2, <2>1, SettlingAssumption DEF CapsLeaveRoom, BelowCap, Knobs
<1>4. UNCHANGED <<machine, window, discardRun, consecutiveDiscards, totalDiscards, levelShifts,
                  runFailed>>
  BY DEF DeriveKnobs, counters, baseline, verdict
<1>5. MachineTypeOK' /\ ~runFailed'
  BY <1>4 DEF MInv, MachineTypeOK, machine, Filling
<1>6. Settled' \/ Moving'
  BY <1>4 DEF MInv, Settled, Moving, machine, HoldsOnly
<1> QED
  BY <1>1, <1>3, <1>5, <1>6 DEF MInv

\* The clock drops: the baseline is now of the speed before, and can judge the next slice.
LEMMA SlowDownMachine ==
  ASSUME MInv, SlowDown
  PROVE  MInv'
<1>1. /\ speed' = speed + 1 /\ held' = 0 /\ held = Hold /\ speed < Len(Speeds)
      /\ consecutiveDiscards = 0 /\ UNCHANGED <<vars, spikes, mixed>>
  BY DEF SlowDown
<1>2. UNCHANGED <<phase, knobs, window, discardRun, consecutiveDiscards, totalDiscards,
                  levelShifts, runFailed>>
  BY <1>1 DEF vars, counters, baseline, verdict
<1>3. Inv'
  BY <1>1, NextInv DEF MInv
<1>4. Settled
  BY <1>1, MInvTypes DEF MInv, Moving
<1>5. MachineTypeOK'
  BY <1>1, <1>2, MInvTypes, SpeedFacts DEF MInv, MachineTypeOK, Filling
<1>6. window.count >= MinSamples
  BY <1>1, <1>4, MInvTypes, SettlingAssumption, StatsAssumption DEF Settled, Lesser
<1>7. Moving'
  <2>1. speed' > 1 /\ held' <= consecutiveDiscards'
    BY <1>1, <1>2, MInvTypes
  <2>2. HoldsOnly(window, Speeds[speed' - 1])
    BY <1>1, <1>4, MInvTypes DEF Settled
  <2>3. \A i \in RunSlots(consecutiveDiscards') : discardRun'[i] \in Speeds'[speed']
    BY <1>1, <1>2, EmptyRun
  <2>4. levelShifts' <= speed' - 2 /\ totalDiscards' - consecutiveDiscards' <= spikes'
    BY <1>1, <1>2, <1>4, MInvTypes DEF Settled
  <2>5. mixed' \subseteq {speed' - 1}
    BY <1>1, <1>4, MInvTypes DEF Settled
  <2> QED
    BY <1>2, <1>6, <2>1, <2>2, <2>3, <2>4, <2>5 DEF Moving, HoldsOnly
<1>8. CapsLeaveRoom' /\ BelowCap' /\ ~runFailed'
  BY <1>2 DEF MInv, CapsLeaveRoom, BelowCap
<1> QED
  BY <1>3, <1>5, <1>7, <1>8 DEF MInv

\* shouldStop never fails the run: neither cap is reached.
LEMMA ShouldStopMachine ==
  ASSUME MInv, ShouldStop, UNCHANGED machine
  PROVE  MInv'
<1>1. Inv' /\ phase # "calibrating"
  BY ShouldStopInv
  DEF MInv, ShouldStop, StopConsecutive, StopTotal, StopHardCap, StopConverged, Stop, KeepGoing
<1>2. UNCHANGED <<machine, knobs, window, discardRun, consecutiveDiscards, totalDiscards,
                  levelShifts>>
  BY DEF ShouldStop, StopConsecutive, StopTotal, StopHardCap, StopConverged, Stop, KeepGoing,
         counters, baseline
<1>3. ~TooManyInARow
  BY <1>1, MInvTypes DEF MInv, BelowCap, TooManyInARow
<1>4. ~TooManyInAll
  <2>1. totalDiscards < knobs.totalDiscardCap
    <3>1. /\ SpikeLimit + knobs.consecutiveDiscardCap <= knobs.totalDiscardCap
          /\ knobs.consecutiveDiscardCap >= 2
          /\ consecutiveDiscards < knobs.consecutiveDiscardCap
      BY <1>1 DEF MInv, CapsLeaveRoom, BelowCap
    <3>2. totalDiscards <= spikes \/ totalDiscards - consecutiveDiscards <= spikes
      BY DEF MInv, Settled, Moving
    <3>3. /\ totalDiscards \in Nat /\ consecutiveDiscards \in Nat /\ SpikeLimit \in Nat
          /\ spikes \in 0 .. SpikeLimit
          /\ knobs.consecutiveDiscardCap \in Nat /\ knobs.totalDiscardCap \in Nat
      BY <1>1, MInvTypes
    <3> QED
      BY <3>1, <3>2, <3>3
  <2> QED
    BY <1>1, <2>1, MInvTypes DEF TooManyInAll
<1>5. ~runFailed'
  <2>1. ~runFailed
    BY DEF MInv
  <2>2. CASE StopHardCap \/ StopConverged
    BY <2>1, <2>2 DEF StopHardCap, StopConverged, Stop
  <2>3. CASE KeepGoing
    BY <2>1, <2>3 DEF KeepGoing, verdict
  <2> QED
    BY <1>3, <1>4, <2>2, <2>3 DEF ShouldStop, StopConsecutive, StopTotal
<1>6. MachineTypeOK' /\ CapsLeaveRoom' /\ BelowCap'
  BY <1>1, <1>2 DEF MInv, MachineTypeOK, CapsLeaveRoom, BelowCap, machine, Filling
<1>7. Settled' \/ Moving'
  BY <1>2 DEF MInv, Settled, Moving, machine, HoldsOnly
<1> QED
  BY <1>1, <1>5, <1>6, <1>7 DEF MInv

\* A slice at the current speed, once the baseline knows it, is accepted.
LEMMA SettledSliceMachine ==
  ASSUME MInv, Settled, SteadySlice
  PROVE  MInv'
<1>1. PICK t \in Speeds[speed] : FeedSlice(t)
  BY DEF SteadySlice
<1>2. t \in WallTimes /\ ~IsJittered(window, t)
  BY MInvTypes, SpeedFacts, OwnSpeedIsAccepted DEF Settled
<1>3. AcceptSlice(t)
  BY <1>1, <1>2 DEF FeedSlice, DiscardSlice, ShiftLevel, ShiftBaseline, Discard
<1>4. Inv'
  BY <1>2, <1>3, AcceptSliceInv DEF MInv
<1>5. /\ phase # "calibrating" /\ phase' = "deciding" /\ consecutiveDiscards' = 0
      /\ window' = Push(window, t) /\ welford'.count = welford.count + 1
      /\ UNCHANGED <<knobs, totalDiscards, levelShifts, runFailed>>
  BY <1>3 DEF AcceptSlice, Update, verdict
<1>6. held' = Lesser(held + 1, Hold) /\ UNCHANGED <<speed, spikes>> /\ Mix(speed)
  BY DEF SteadySlice
<1>7. /\ HoldsOnly(window', Speeds[speed]) /\ Filling(window')
      /\ window'.count = Lesser(window.count + 1, JitterWindow)
  <2>1. window \in Windows /\ Filling(window) /\ HoldsOnly(window, Speeds[speed])
    BY MInvTypes DEF MInv, MachineTypeOK, Settled
  <2> QED
    BY <1>5, <2>1, PushHolds
<1>8. MachineTypeOK'
  <2>1. held' \in 0 .. Hold
    BY <1>6, MInvTypes DEF Lesser
  <2> QED
    BY <1>6, <1>7, <2>1 DEF MInv, MachineTypeOK, Filling
<1>9. Settled'
  <2>1. window'.count >= Lesser(held', JitterWindow)
    <3>1. /\ window.count \in Nat /\ held \in Nat /\ Hold \in Nat /\ JitterWindow \in Nat
          /\ window.count >= Lesser(held, JitterWindow)
      BY MInvTypes, StatsAssumption DEF Settled
    <3> QED
      BY <1>6, <1>7, <3>1 DEF Lesser
  <2>2. mixed' \subseteq {speed}
    BY <1>5, <1>6, MInvTypes DEF Mix, Settled
  <2>3. consecutiveDiscards' <= 1 /\ levelShifts' <= speed' - 1 /\ totalDiscards' <= spikes'
    BY <1>5, <1>6 DEF Settled
  <2> QED
    BY <1>6, <1>7, <2>1, <2>2, <2>3 DEF Settled, HoldsOnly
<1>10. CapsLeaveRoom' /\ ~runFailed'
  BY <1>5 DEF MInv, CapsLeaveRoom
<1>11. BelowCap'
  BY <1>5, MInvTypes DEF MInv, CapsLeaveRoom, BelowCap
<1> QED
  BY <1>4, <1>8, <1>9, <1>10, <1>11 DEF MInv

\* An interrupt at a speed the baseline knows: one discard, which no shift or cap acts on.
LEMMA SpikedSliceMachine ==
  ASSUME MInv, SpikedSlice
  PROVE  MInv'
<1>1. /\ spikes < SpikeLimit /\ held = Hold /\ consecutiveDiscards = 0 /\ FeedSlice(SpikeTime)
      /\ spikes' = spikes + 1 /\ UNCHANGED <<speed, held>> /\ Mix(0)
  BY DEF SpikedSlice
<1>2. Settled
  BY <1>1, MInvTypes DEF MInv, Moving
<1>3. window.count >= MinSamples
  BY <1>1, <1>2, MInvTypes, SettlingAssumption, StatsAssumption DEF Settled, Lesser
<1>4. IsJittered(window, SpikeTime)
  BY <1>2, <1>3, MInvTypes, SpikeIsDiscarded DEF Settled
<1>5. phase = "slicing" /\ ~LevelShiftDue
  <2>1. phase = "slicing"
    BY <1>1 DEF FeedSlice, AcceptSlice, DiscardSlice, ShiftLevel, ShiftBaseline, Discard
  <2>2. knobs.consecutiveDiscardCap \in Nat /\ knobs.consecutiveDiscardCap >= 2
    BY <2>1, MInvTypes DEF MInv, CapsLeaveRoom
  <2> QED
    BY <1>1, <2>1, <2>2 DEF LevelShiftDue
<1>6. DiscardSlice(SpikeTime)
  BY <1>1, <1>4, <1>5 DEF FeedSlice, AcceptSlice, ShiftLevel, ShiftBaseline
<1>7. Inv'
  BY <1>6, SpeedFacts, DiscardSliceInv DEF MInv
<1>8. /\ consecutiveDiscards' = 1 /\ totalDiscards' = totalDiscards + 1
      /\ UNCHANGED <<knobs, levelShifts, window, welford, runFailed>>
  BY <1>1, <1>6 DEF DiscardSlice, Discard, verdict
<1>9. MachineTypeOK'
  BY <1>1, <1>8, MInvTypes DEF MInv, MachineTypeOK, Filling
<1>10. Settled'
  <2>1. mixed' \subseteq {speed'}
    BY <1>1, <1>2, <1>8, MInvTypes DEF Mix, Settled
  <2>2. levelShifts' <= speed' - 1 /\ totalDiscards' <= spikes' /\ consecutiveDiscards' <= 1
    BY <1>1, <1>2, <1>8, MInvTypes DEF Settled
  <2> QED
    BY <1>1, <1>2, <1>8, <2>1, <2>2 DEF Settled, HoldsOnly
<1>11. CapsLeaveRoom' /\ ~runFailed'
  BY <1>5, <1>8 DEF MInv, CapsLeaveRoom
<1>12. BelowCap'
  BY <1>5, <1>8, MInvTypes DEF MInv, CapsLeaveRoom, BelowCap
<1> QED
  BY <1>7, <1>9, <1>10, <1>11, <1>12 DEF MInv

\* A discard of the slow-down in hand lengthens its run, and every slot of it is of the new speed.
LEMMA MovingRunGrows ==
  ASSUME MInv, Moving, NEW t \in Speeds[speed], Discard(t)
  PROVE  /\ \A i \in RunSlots(consecutiveDiscards + 1) : discardRun'[i] \in Speeds[speed]
         /\ discardRun' \in [Slots -> Samples]
         /\ DiscardRunIsLevel(discardRun', consecutiveDiscards + 1)
<1> DEFINE new == consecutiveDiscards % JitterWindow
<1>1. new \in Slots /\ (consecutiveDiscards < JitterWindow => new = consecutiveDiscards)
  BY MInvTypes, SlotIndex
<1>2. discardRun' = [discardRun EXCEPT ![new] = t] /\ discardRun \in [Slots -> Samples]
  BY MInvTypes DEF Discard
<1>3. discardRun' \in [Slots -> Samples]
  BY <1>2, MInvTypes, SpeedFacts DEF Samples
<1>4. ASSUME NEW i \in RunSlots(consecutiveDiscards + 1)
      PROVE  discardRun'[i] \in Speeds[speed]
  <2>1. i \in Slots /\ (i = new \/ i \in RunSlots(consecutiveDiscards))
    <3> HIDE DEF new
    <3>1. consecutiveDiscards \in Nat /\ JitterWindow \in Nat \ {0}
      BY MInvTypes, StatsAssumption
    <3> QED
      BY <1>1, <3>1 DEF RunSlots, Slots, Lesser
  <2>2. CASE i = new
    BY <1>1, <1>2, <2>2
  <2>3. CASE i # new
    BY <1>2, <2>1, <2>3 DEF Moving
  <2> QED
    BY <2>2, <2>3
<1>5. DiscardRunIsLevel(discardRun', consecutiveDiscards + 1)
  BY <1>4, MInvTypes, SpeedFacts DEF DiscardRunIsLevel
<1> QED
  BY <1>3, <1>4, <1>5

\* A slice at a speed the baseline does not know yet: a discard, or the shift that ends them.
LEMMA MovingSliceMachine ==
  ASSUME MInv, Moving, SteadySlice
  PROVE  MInv'
<1> DEFINE n == consecutiveDiscards + 1
<1>0. /\ consecutiveDiscards \in Nat /\ totalDiscards \in Nat /\ levelShifts \in Nat
      /\ speed \in Nat /\ spikes \in Nat /\ held \in 0 .. Hold /\ Hold \in Nat
      /\ held <= consecutiveDiscards /\ levelShifts <= speed - 2
      /\ totalDiscards - consecutiveDiscards <= spikes
      /\ mixed \subseteq {speed - 1} /\ welford.count \in Nat
  <2>1. /\ consecutiveDiscards \in Nat /\ totalDiscards \in Nat /\ levelShifts \in Nat
        /\ speed \in 1 .. Len(Speeds) /\ spikes \in 0 .. SpikeLimit /\ held \in 0 .. Hold
        /\ Hold \in Nat /\ SpikeLimit \in Nat /\ welford.count \in Nat
    BY MInvTypes
  <2>2. Len(Speeds) \in Nat
    BY SpeedFacts
  <2>3. /\ held <= consecutiveDiscards /\ levelShifts <= speed - 2
        /\ totalDiscards - consecutiveDiscards <= spikes
        /\ mixed \subseteq {speed - 1}
    BY DEF Moving
  <2> QED
    BY <2>1, <2>2, <2>3
<1>1. PICK t \in Speeds[speed] : FeedSlice(t)
  BY DEF SteadySlice
<1>2. t \in WallTimes /\ IsJittered(window, t)
  <2>1. speed \in 2 .. Len(Speeds)
    BY MInvTypes DEF Moving
  <2> QED
    BY <2>1, MInvTypes, SpeedFacts, NextSpeedIsDiscarded DEF Moving
<1>3. DiscardSlice(t) \/ ShiftLevel(t)
  BY <1>1, <1>2 DEF FeedSlice, AcceptSlice
<1>4. Discard(t)
  BY <1>3 DEF DiscardSlice, ShiftLevel, ShiftBaseline
<1>5. /\ phase # "calibrating" /\ UNCHANGED <<knobs, runFailed>>
  BY <1>4 DEF Discard, verdict
<1>6. Inv'
  BY <1>2, <1>3, DiscardSliceInv, ShiftLevelInv DEF MInv
<1>7. /\ held' = Lesser(held + 1, Hold) /\ UNCHANGED <<speed, spikes>> /\ Mix(speed)
  BY DEF SteadySlice
<1>8. held' \in 0 .. Hold /\ held' <= n
  BY <1>0, <1>7 DEF Lesser
<1>9. /\ \A i \in RunSlots(n) : discardRun'[i] \in Speeds[speed]
      /\ discardRun' \in [Slots -> Samples]
      /\ DiscardRunIsLevel(discardRun', n)
  BY <1>4, MovingRunGrows
<1>10. CapsLeaveRoom' /\ ~runFailed'
  BY <1>5 DEF MInv, CapsLeaveRoom
<1>11. CASE DiscardSlice(t)
  <2>1. /\ consecutiveDiscards' = n /\ totalDiscards' = totalDiscards + 1
        /\ UNCHANGED <<levelShifts, window, welford>>
    BY <1>11 DEF DiscardSlice
  <2>2. n < knobs.consecutiveDiscardCap
    <3>1. levelShifts < MaxLevelShifts
      BY MInvTypes, SpeedFacts, StatsAssumption DEF Moving
    <3>2. ~(n >= knobs.consecutiveDiscardCap)
      BY <1>9, <1>11, <3>1 DEF DiscardSlice, LevelShiftDue
    <3> QED
      BY <1>5, <3>2, MInvTypes
  <2>3. MachineTypeOK'
    BY <1>7, <1>8, <2>1 DEF MInv, MachineTypeOK, Filling
  <2>4. Moving'
    <3>1. mixed' \subseteq {speed - 1}
      <4>1. ~(welford'.count > welford.count)
        BY <1>0, <2>1
      <4>2. mixed' = {} \/ mixed' = mixed
        BY <1>7, <4>1 DEF Mix
      <4> QED
        BY <1>0, <4>2
    <3>2. totalDiscards' - consecutiveDiscards' <= spikes'
      BY <1>0, <1>7, <2>1
    <3> QED
      BY <1>7, <1>8, <1>9, <2>1, <3>1, <3>2 DEF Moving, HoldsOnly
  <2>5. BelowCap'
    BY <1>5, <2>1, <2>2 DEF BelowCap
  <2> QED
    BY <1>6, <1>10, <2>3, <2>4, <2>5 DEF MInv
<1>12. CASE ShiftLevel(t)
  <2>1. /\ window' = WindowOfRun(discardRun', n) /\ welford'.count = 0
        /\ totalDiscards' = (totalDiscards + 1) - n
        /\ consecutiveDiscards' = 0 /\ levelShifts' = levelShifts + 1
    BY <1>12 DEF ShiftLevel, ShiftBaseline, EmptyWelford
  <2>2. /\ HoldsOnly(window', Speeds[speed]) /\ Filling(window')
        /\ window'.count = Lesser(n, JitterWindow)
    <3>1. n \in Nat
      BY MInvTypes
    <3> HIDE DEF n
    <3> QED
      BY <1>9, <2>1, <3>1, RunHolds
  <2>3. MachineTypeOK'
    BY <1>7, <1>8, <2>2 DEF MInv, MachineTypeOK, Filling
  <2>4. Settled'
    <3>1. window'.count >= Lesser(held', JitterWindow)
      <4>1. n \in Nat /\ held' \in Nat /\ held' <= n /\ JitterWindow \in Nat
        BY <1>0, <1>8, StatsAssumption
      <4> HIDE DEF n
      <4>2. Lesser(n, JitterWindow) >= Lesser(held', JitterWindow)
        BY <4>1 DEF Lesser
      <4> QED
        BY <2>2, <4>2
    <3>2. totalDiscards' <= spikes' /\ levelShifts' <= speed' - 1
      BY <1>0, <1>7, <2>1
    <3>3. mixed' \subseteq {speed'}
      BY <1>7, <2>1 DEF Mix
    <3> QED
      BY <1>7, <2>1, <2>2, <3>1, <3>2, <3>3 DEF Settled, HoldsOnly
  <2>5. BelowCap'
    <3>1. knobs.consecutiveDiscardCap \in Nat /\ knobs.consecutiveDiscardCap >= 2
      BY <1>5, MInvTypes DEF MInv, CapsLeaveRoom
    <3>2. 0 < knobs.consecutiveDiscardCap
      BY <3>1
    <3> QED
      BY <1>5, <2>1, <3>2 DEF BelowCap
  <2> QED
    BY <1>6, <1>10, <2>3, <2>4, <2>5 DEF MInv
<1> QED
  BY <1>3, <1>11, <1>12

LEMMA NextMachine == MInv /\ [MachineNext]_<<vars, machine>> => MInv'
<1> SUFFICES ASSUME MInv, [MachineNext]_<<vars, machine>> PROVE MInv'
  OBVIOUS
<1>1. ASSUME NEW tier \in Tiers, NEW config \in ConfigKnobs, DeriveKnobs(tier, config),
             UNCHANGED machine
      PROVE  MInv'
  BY <1>1, DeriveKnobsMachine
<1>2. CASE ShouldStop /\ UNCHANGED machine
  BY <1>2, ShouldStopMachine
<1>3. CASE SteadySlice
  BY <1>3, SettledSliceMachine, MovingSliceMachine DEF MInv
<1>4. CASE SpikedSlice
  BY <1>4, SpikedSliceMachine
<1>5. CASE SlowDown
  BY <1>5, SlowDownMachine
<1>6. CASE UNCHANGED <<vars, machine>>
  <2>1. Inv'
    BY <1>6, NextInv DEF MInv
  <2>2. UNCHANGED <<phase, knobs, window, discardRun, consecutiveDiscards, totalDiscards,
                    levelShifts, runFailed, machine>>
    BY <1>6 DEF vars, counters, baseline, verdict
  <2> QED
    BY <2>1, <2>2 DEF MInv, MachineTypeOK, CapsLeaveRoom, BelowCap, Settled, Moving, machine,
                      HoldsOnly, Filling
<1> QED
  BY <1>1, <1>2, <1>3, <1>4, <1>5, <1>6 DEF MachineNext

LEMMA MachineInvHolds == MachineSpec => []MInv
BY InitMachine, NextMachine, PTL DEF MachineSpec

\* A machine that slows down in steps, and whose interrupts hit single slices of a known speed,
\* never fails its run: every slow-down ends in a level shift that takes its discards back before
\* a cap is reached.
THEOREM SettlingSucceeds == MachineSpec => []SettlingNeverFails
<1>1. MInv => SettlingNeverFails
  BY DEF MInv, SettlingNeverFails
<1> QED
  BY <1>1, MachineInvHolds, PTL

\* On such a machine the mean is made of slices of one speed at every moment, and of no interrupt.
THEOREM OneSpeedInTheMean == MachineSpec => []MeanIsOneSpeed
<1>1. MInv => MeanIsOneSpeed
  <2> SUFFICES ASSUME MInv PROVE MeanIsOneSpeed
    OBVIOUS
  <2>1. PICK k \in Nat \ {0} : mixed \subseteq {k}
    <3>1. CASE Settled
      BY <3>1, MInvTypes DEF Settled
    <3>2. CASE Moving
      <4>1. speed - 1 \in Nat \ {0} /\ mixed \subseteq {speed - 1}
        <5>1. speed \in Nat /\ speed > 1
          BY <3>2, MInvTypes DEF Moving
        <5>2. mixed \subseteq {speed - 1}
          BY <3>2 DEF Moving
        <5> QED
          BY <5>1, <5>2
      <4> QED
        BY <4>1
    <3> QED
      BY <3>1, <3>2 DEF MInv
  <2>2. Cardinality(mixed) <= 1
    <3>1. IsFiniteSet({k}) /\ Cardinality({k}) = 1
      BY FS_Singleton
    <3> QED
      BY <2>1, <3>1, FS_Subset
  <2> QED
    BY <2>1, <2>2 DEF MeanIsOneSpeed
<1> QED
  BY <1>1, MachineInvHolds, PTL
=============================================================================
