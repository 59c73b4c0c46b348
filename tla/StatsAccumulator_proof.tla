----------------------- MODULE StatsAccumulator_proof -----------------------
(***************************************************************************)
(* Proofs about StatsAccumulator, for every window size, cap, threshold    *)
(* and set of wall times.                                                  *)
(***************************************************************************)
EXTENDS StatsAccumulator, FiniteSetTheorems, WellFoundedInduction, TLAPS

-----------------------------------------------------------------------------
(* The operators keep their types. *)

\* An index taken modulo the window size is a slot, and small indices are unchanged.
LEMMA SlotIndex ==
  ASSUME NEW n \in Nat
  PROVE  /\ n % JitterWindow \in Slots
         /\ n < JitterWindow => n % JitterWindow = n
BY StatsAssumption DEF Slots

\* Pushing a sample into a window leaves a window.
LEMMA PushType ==
  ASSUME NEW w \in Windows, NEW t \in Samples
  PROVE  Push(w, t) \in Windows
<1>1. (w.next + 1) % JitterWindow \in Slots
  BY SlotIndex DEF Windows, Slots
<1>2. Lesser(w.count + 1, JitterWindow) \in 0 .. JitterWindow
  BY StatsAssumption DEF Windows, Lesser
<1>3. [w.slots EXCEPT ![w.next] = t] \in [Slots -> Samples]
  BY DEF Windows
<1> QED
  BY <1>1, <1>2, <1>3 DEF Windows, Push

\* The window of a discard run is a window.
LEMMA WindowOfRunType ==
  ASSUME NEW ring \in [Slots -> Samples], NEW n \in Nat
  PROVE  WindowOfRun(ring, n) \in Windows
<1>1. Lesser(n, JitterWindow) \in 0 .. JitterWindow
  BY StatsAssumption DEF Lesser
<1>2. Lesser(n, JitterWindow) % JitterWindow \in Slots
  BY <1>1, SlotIndex
<1>3. [i \in Slots |-> IF i \in RunSlots(n) THEN ring[i] ELSE 0] \in [Slots -> Samples]
  BY DEF Samples
<1> QED
  BY <1>1, <1>2, <1>3 DEF Windows, WindowOfRun

\* The discards of a run, in order, are a sequence of samples.
LEMMA RunInOrderType ==
  ASSUME NEW ring \in [Slots -> Samples], NEW n \in Nat
  PROVE  RunInOrder(ring, n) \in Seq(Samples)
<1> DEFINE held == Lesser(n, JitterWindow)
<1>1. held \in Nat /\ held <= n
  BY StatsAssumption DEF Lesser
<1>2. ASSUME NEW i \in 1 .. held
      PROVE  ring[(n - held + i - 1) % JitterWindow] \in Samples
  <2>1. n - held + i - 1 \in Nat
    BY <1>1
  <2>2. (n - held + i - 1) % JitterWindow \in Slots
    BY <2>1, SlotIndex
  <2> QED
    BY <2>2
<1>3. [i \in 1 .. held |-> ring[(n - held + i - 1) % JitterWindow]] \in [1 .. held -> Samples]
  BY <1>2
<1> QED
  BY <1>1, <1>3 DEF RunInOrder

\* Keeping the newest samples keeps a sequence of samples.
LEMMA NewestSamplesType ==
  ASSUME NEW s \in Seq(Samples)
  PROVE  NewestSamples(s) \in Seq(Samples)
BY StatsAssumption DEF NewestSamples

\* The knobs a run derives are positive, whatever its Config overrides.
LEMMA DerivedKnobsType ==
  ASSUME NEW tier \in Tiers, NEW config \in ConfigKnobs
  PROVE  DerivedKnobs(tier, config) \in Knobs
<1>1. /\ tier.minSlices \in Nat \ {0} /\ tier.maxSlices \in Nat \ {0}
      /\ config.cvPct \in Nat /\ config.minSlices \in Nat /\ config.maxSlices \in Nat
      /\ config.consecutiveDiscardCap \in Nat /\ config.totalDiscardCap \in Nat
  BY StatsAssumption DEF ConfigKnobsSpace
<1>2. tier.maxSlices \div TotalCapShare \in Nat
  BY <1>1, StatsAssumption
<1> QED
  BY <1>1, <1>2, StatsAssumption DEF DerivedKnobs, Override, Knobs

-----------------------------------------------------------------------------
(* The inductive invariant.  DiscardsAreAccounted alone is not inductive:   *)
(* it needs the counters' types (levelShifts bounded, the ring and the      *)
(* window typed), the zero counters the calibration starts from, and the    *)
(* bound on the accepted slices.                                            *)

NothingBeforeCalibration ==
  phase = "calibrating" =>
     /\ acceptedSlices = 0 /\ consecutiveDiscards = 0 /\ totalDiscards = 0
     /\ maxConsecutiveDiscards = 0

AcceptedWithinCap == phase # "calibrating" => acceptedSlices <= knobs.maxSlices

Inv ==
  /\ TypeOK
  /\ DiscardsAreAccounted
  /\ NothingBeforeCalibration
  /\ AcceptedWithinCap

LEMMA InitInv == Init => Inv
<1> SUFFICES ASSUME Init PROVE Inv
  OBVIOUS
<1>1. EmptyWindow \in Windows
  BY StatsAssumption DEF EmptyWindow, Windows, Slots, Samples
<1>2. discardRun \in [Slots -> Samples]
  BY DEF Init, Samples
<1>3. recent \in Seq(Samples) /\ levelShifts \in 0 .. MaxLevelShifts
  BY StatsAssumption DEF Init
<1>4. welford \in [count : Nat, sum : Nat, sumSq : Nat]
  BY DEF Init, EmptyWelford
<1>5. TypeOK
  BY <1>1, <1>2, <1>3, <1>4 DEF Init, TypeOK, StopReasons
<1> QED
  BY <1>5 DEF Init, Inv, DiscardsAreAccounted, NothingBeforeCalibration, AcceptedWithinCap

LEMMA DeriveKnobsInv ==
  ASSUME Inv, NEW tier \in Tiers, NEW config \in ConfigKnobs, DeriveKnobs(tier, config)
  PROVE  Inv'
<1>1. knobs' \in Knobs
  BY DerivedKnobsType DEF DeriveKnobs
<1>2. TypeOK'
  BY <1>1 DEF Inv, TypeOK, DeriveKnobs, counters, baseline, verdict
<1> QED
  BY <1>1, <1>2
  DEF Inv, TypeOK, DiscardsAreAccounted, NothingBeforeCalibration, AcceptedWithinCap,
      DeriveKnobs, counters, baseline, verdict, Knobs

LEMMA AcceptSliceInv ==
  ASSUME Inv, NEW t \in WallTimes, AcceptSlice(t)
  PROVE  Inv'
<1>1. window' \in Windows
  BY PushType DEF Inv, TypeOK, AcceptSlice, Samples
<1>2. recent' \in Seq(Samples)
  <2>1. Append(recent, t) \in Seq(Samples)
    BY DEF Inv, TypeOK, Samples
  <2> QED
    BY <2>1, NewestSamplesType DEF AcceptSlice
<1>3. welford' \in [count : Nat, sum : Nat, sumSq : Nat]
  <2>1. t \in Nat /\ t * t \in Nat
    BY StatsAssumption
  <2> QED
    BY <2>1 DEF Inv, TypeOK, AcceptSlice, Update
<1>4. TypeOK'
  BY <1>1, <1>2, <1>3 DEF Inv, TypeOK, AcceptSlice, verdict
<1>5. DiscardsAreAccounted'
  BY DEF Inv, TypeOK, DiscardsAreAccounted, AcceptSlice, Knobs
<1>6. NothingBeforeCalibration' /\ AcceptedWithinCap'
  BY DEF Inv, TypeOK, DiscardsAreAccounted, NothingBeforeCalibration, AcceptedWithinCap,
         AcceptSlice, Knobs
<1> QED
  BY <1>4, <1>5, <1>6 DEF Inv

\* What both kinds of discard do to the ring and to the longest run.
LEMMA DiscardType ==
  ASSUME Inv, NEW t \in WallTimes, Discard(t)
  PROVE  /\ discardRun' \in [Slots -> Samples]
         /\ maxConsecutiveDiscards' \in Nat
         /\ consecutiveDiscards + 1 <= maxConsecutiveDiscards'
         /\ maxConsecutiveDiscards' <= knobs.consecutiveDiscardCap
<1>1. discardRun' \in [Slots -> Samples]
  BY DEF Inv, TypeOK, Discard, Samples
<1> QED
  BY <1>1 DEF Inv, TypeOK, DiscardsAreAccounted, Discard, Knobs

LEMMA DiscardSliceInv ==
  ASSUME Inv, NEW t \in WallTimes, DiscardSlice(t)
  PROVE  Inv'
<1>1. Discard(t)
  BY DEF DiscardSlice
<1>2. TypeOK'
  <2>1. discardRun' \in [Slots -> Samples] /\ maxConsecutiveDiscards' \in Nat
    BY <1>1, DiscardType
  <2>2. UNCHANGED <<knobs, acceptedSlices, levelShifts, window, welford, verdict, recent>>
    BY <1>1 DEF DiscardSlice, Discard
  <2>3. consecutiveDiscards' \in Nat /\ totalDiscards' \in Nat
    BY DEF Inv, TypeOK, DiscardSlice
  <2> QED
    BY <1>1, <2>1, <2>2, <2>3 DEF Inv, TypeOK, Discard, verdict
<1>3. DiscardsAreAccounted'
  BY <1>1, DiscardType DEF Inv, TypeOK, DiscardsAreAccounted, DiscardSlice, Discard, Knobs
<1>4. NothingBeforeCalibration' /\ AcceptedWithinCap'
  BY <1>1 DEF Inv, TypeOK, NothingBeforeCalibration, AcceptedWithinCap, DiscardSlice, Discard
<1> QED
  BY <1>2, <1>3, <1>4 DEF Inv

LEMMA ShiftLevelInv ==
  ASSUME Inv, NEW t \in WallTimes, ShiftLevel(t)
  PROVE  Inv'
<1>1. Discard(t)
  BY DEF ShiftLevel, ShiftBaseline
<1>2. consecutiveDiscards + 1 \in Nat /\ consecutiveDiscards <= totalDiscards
  BY DEF Inv, TypeOK, DiscardsAreAccounted
<1>3. window' \in Windows
  BY <1>1, <1>2, DiscardType, WindowOfRunType DEF ShiftLevel, ShiftBaseline
<1>4. recent' \in Seq(Samples)
  BY <1>1, <1>2, DiscardType, RunInOrderType DEF ShiftLevel, ShiftBaseline
<1>5. levelShifts' \in 0 .. MaxLevelShifts
  BY StatsAssumption DEF Inv, TypeOK, ShiftLevel, ShiftBaseline, LevelShiftDue
<1>6. totalDiscards' \in Nat /\ totalDiscards' <= totalDiscards
  BY <1>2 DEF Inv, TypeOK, ShiftLevel, ShiftBaseline
<1>7. TypeOK'
  BY <1>1, <1>3, <1>4, <1>5, <1>6, DiscardType
  DEF Inv, TypeOK, ShiftLevel, ShiftBaseline, Discard, verdict, EmptyWelford
<1>8. DiscardsAreAccounted'
  BY <1>1, <1>6, DiscardType
  DEF Inv, TypeOK, DiscardsAreAccounted, ShiftLevel, ShiftBaseline, Discard, Knobs
<1>9. NothingBeforeCalibration' /\ AcceptedWithinCap'
  BY <1>1 DEF Inv, TypeOK, NothingBeforeCalibration, AcceptedWithinCap, ShiftLevel, ShiftBaseline, Discard,
              Knobs
<1> QED
  BY <1>7, <1>8, <1>9 DEF Inv

LEMMA ShouldStopInv ==
  ASSUME Inv, ShouldStop
  PROVE  Inv'
<1>1. CASE KeepGoing
  BY <1>1 DEF Inv, TypeOK, DiscardsAreAccounted, NothingBeforeCalibration, AcceptedWithinCap,
              KeepGoing, TooManyInARow, TooManyInAll, AtHardCap, counters, baseline, verdict,
              Knobs
<1>2. ASSUME NEW reason \in StopReasons, NEW failed \in BOOLEAN, Stop(reason, failed)
      PROVE  Inv'
  BY <1>2 DEF Inv, TypeOK, DiscardsAreAccounted, NothingBeforeCalibration, AcceptedWithinCap,
              Stop, counters, baseline
<1>3. CASE StopConsecutive
  BY <1>2, <1>3 DEF StopConsecutive, StopReasons
<1>4. CASE StopTotal
  BY <1>2, <1>4 DEF StopTotal, StopReasons
<1>5. CASE StopHardCap
  BY <1>2, <1>5 DEF StopHardCap, StopReasons
<1>6. CASE StopConverged
  BY <1>2, <1>6 DEF StopConverged, StopReasons
<1> QED
  BY <1>1, <1>3, <1>4, <1>5, <1>6 DEF ShouldStop

LEMMA NextInv == Inv /\ [Next]_vars => Inv'
<1> SUFFICES ASSUME Inv, [Next]_vars PROVE Inv'
  OBVIOUS
<1>1. CASE \E tier \in Tiers, config \in ConfigKnobs : DeriveKnobs(tier, config)
  BY <1>1, DeriveKnobsInv
<1>2. CASE \E t \in WallTimes : FeedSlice(t)
  BY <1>2, AcceptSliceInv, DiscardSliceInv, ShiftLevelInv DEF FeedSlice
<1>3. CASE ShouldStop
  BY <1>3, ShouldStopInv
<1>4. CASE UNCHANGED vars
  BY <1>4 DEF vars, counters, baseline, verdict, Inv, TypeOK, DiscardsAreAccounted,
              NothingBeforeCalibration, AcceptedWithinCap
<1> QED
  BY <1>1, <1>2, <1>3, <1>4 DEF Next

LEMMA InvHolds == Spec => []Inv
BY InitInv, NextInv, PTL DEF Spec

\* Every variable keeps its type, whatever wall times the slices show: no counter of the
\* accumulator ever wraps below zero and the rings only hold samples.
THEOREM TypeCorrect == Spec => []TypeOK
<1>1. Inv => TypeOK
  BY DEF Inv
<1> QED
  BY <1>1, InvHolds, PTL

\* The discard counters agree with each other and with the caps in every state.
THEOREM DiscardsAccounted == Spec => []DiscardsAreAccounted
<1>1. Inv => DiscardsAreAccounted
  BY DEF Inv
<1> QED
  BY <1>1, InvHolds, PTL

-----------------------------------------------------------------------------
(* The discard run and the level shift.                                     *)

\* After a discard every slot of the run is an outlier of the window: the new slot by the
\* discard itself, the others because the window has not moved since they were written.
LEMMA LongerRunIsSlower ==
  ASSUME Inv, DiscardRunIsSlower, NEW t \in WallTimes, Discard(t),
         NEW i \in RunSlots(consecutiveDiscards + 1)
  PROVE  IsJittered(window, discardRun'[i])
<1> DEFINE new == consecutiveDiscards % JitterWindow
<1>1. new \in Slots /\ (consecutiveDiscards < JitterWindow => new = consecutiveDiscards)
  BY SlotIndex DEF Inv, TypeOK
<1>2. i \in Slots /\ (i = new \/ i \in RunSlots(consecutiveDiscards))
  BY <1>1, StatsAssumption DEF Inv, TypeOK, RunSlots, Slots, Lesser
<1>3. discardRun' = [discardRun EXCEPT ![new] = t] /\ discardRun \in [Slots -> Samples]
  BY DEF Inv, TypeOK, Discard
<1>4. CASE i = new
  <2>1. discardRun'[i] = t
    BY <1>1, <1>3, <1>4
  <2> QED
    BY <2>1 DEF Discard
<1>5. CASE i # new
  <2>1. discardRun'[i] = discardRun[i]
    BY <1>2, <1>3, <1>5
  <2> QED
    BY <1>2, <1>5, <2>1 DEF DiscardRunIsSlower
<1> QED
  BY <1>4, <1>5

\* A run of no discards has no slots.
LEMMA EmptyRun == RunSlots(0) = {}
BY StatsAssumption DEF RunSlots, Lesser

LEMMA InitSlower == Init => DiscardRunIsSlower
BY EmptyRun DEF Init, DiscardRunIsSlower

LEMMA NextSlower == Inv /\ DiscardRunIsSlower /\ [Next]_vars => DiscardRunIsSlower'
<1> SUFFICES ASSUME Inv, DiscardRunIsSlower, [Next]_vars PROVE DiscardRunIsSlower'
  OBVIOUS
<1>1. ASSUME consecutiveDiscards' = 0 PROVE DiscardRunIsSlower'
  BY <1>1, EmptyRun DEF DiscardRunIsSlower
<1>2. ASSUME UNCHANGED <<consecutiveDiscards, discardRun, window>> PROVE DiscardRunIsSlower'
  BY <1>2 DEF DiscardRunIsSlower
<1>3. CASE \E tier \in Tiers, config \in ConfigKnobs : DeriveKnobs(tier, config)
  BY <1>2, <1>3 DEF DeriveKnobs, counters, baseline
<1>4. ASSUME NEW t \in WallTimes, AcceptSlice(t) PROVE DiscardRunIsSlower'
  BY <1>1, <1>4 DEF AcceptSlice
<1>5. ASSUME NEW t \in WallTimes, DiscardSlice(t) PROVE DiscardRunIsSlower'
  <2>1. \A i \in RunSlots(consecutiveDiscards + 1) : IsJittered(window, discardRun'[i])
    BY <1>5, LongerRunIsSlower DEF DiscardSlice
  <2>2. window' = window /\ consecutiveDiscards' = consecutiveDiscards + 1
    BY <1>5 DEF DiscardSlice
  <2> QED
    BY <2>1, <2>2 DEF DiscardRunIsSlower
<1>6. ASSUME NEW t \in WallTimes, ShiftLevel(t) PROVE DiscardRunIsSlower'
  BY <1>1, <1>6 DEF ShiftLevel, ShiftBaseline
<1>7. CASE ShouldStop
  BY <1>2, <1>7 DEF ShouldStop, StopConsecutive, StopTotal, StopHardCap, StopConverged, Stop,
                    KeepGoing, counters, baseline
<1>8. CASE UNCHANGED vars
  BY <1>2, <1>8 DEF vars, counters, baseline
<1> QED
  BY <1>3, <1>4, <1>5, <1>6, <1>7, <1>8 DEF Next, FeedSlice

\* What a level shift would read is never a stale slot: every slot of the current run is an
\* outlier of the current window.
THEOREM DiscardRunSlower == Spec => []DiscardRunIsSlower
BY InvHolds, InitSlower, NextSlower, PTL DEF Spec

\* Only ShiftLevel changes levelShifts.
LEMMA OnlyShiftLevelShifts ==
  ASSUME Inv, [Next]_vars, levelShifts' # levelShifts
  PROVE  \E t \in WallTimes : ShiftLevel(t)
BY DEF Next, DeriveKnobs, FeedSlice, AcceptSlice, DiscardSlice, ShouldStop, StopConsecutive,
       StopTotal, StopHardCap, StopConverged, Stop, KeepGoing, vars, counters

\* A level shift moves the baseline only to slices the old baseline called outliers.
THEOREM LevelShiftSlower == Spec => LevelShiftIsSlower
<1>1. ASSUME Inv, DiscardRunIsSlower, [Next]_vars, levelShifts' # levelShifts,
             NEW i \in 0 .. window'.count - 1
      PROVE  IsJittered(window, window'.slots[i])
  <2>1. PICK t \in WallTimes : ShiftLevel(t)
    BY <1>1, OnlyShiftLevelShifts
  <2>2. Discard(t) /\ window' = WindowOfRun(discardRun', consecutiveDiscards + 1)
    BY <2>1 DEF ShiftLevel, ShiftBaseline
  <2>3. i \in RunSlots(consecutiveDiscards + 1) /\ i \in Slots
    BY <1>1, <2>2, StatsAssumption
    DEF Inv, TypeOK, WindowOfRun, RunSlots, Lesser, Slots
  <2>4. window'.slots[i] = discardRun'[i]
    BY <2>2, <2>3 DEF WindowOfRun
  <2>5. IsJittered(window, discardRun'[i])
    BY <1>1, <2>2, <2>3, LongerRunIsSlower
  <2> QED
    BY <2>4, <2>5
<1>2. Inv /\ DiscardRunIsSlower /\ [Next]_vars =>
        [levelShifts' # levelShifts =>
            \A i \in 0 .. window'.count - 1 : IsJittered(window, window'.slots[i])]_vars
  BY <1>1
<1> QED
  BY <1>2, InvHolds, DiscardRunSlower, PTL DEF Spec, LevelShiftIsSlower

-----------------------------------------------------------------------------
(* The median.  Sorted chooses a sample by counting; that there is one to   *)
(* choose is an induction, stated as the least natural number of a set.     *)

\* A set of natural numbers has a least element.
LEMMA LeastNatural ==
  ASSUME NEW T, T \subseteq Nat, T # {}
  PROVE  \E n \in T : \A m \in T : n <= m
<1> DEFINE R == {ss \in Nat \X Nat : ss[1] < ss[2]}
<1>1. IsWellFoundedOn(R, Nat)
  BY NatLessThanWellFounded DEF OpToRel
<1>2. PICK n \in T : \A m \in T : ~ (<<m, n>> \in R)
  BY <1>1, WFMin
<1>3. \A m \in T : ~(m < n)
  BY <1>2
<1> QED
  BY <1>3

\* The samples a window holds are natural numbers.
LEMMA SamplesAreNatural ==
  ASSUME NEW w \in Windows
  PROVE  /\ w.count \in 0 .. JitterWindow /\ w.count \in Nat
         /\ \A i \in 0 .. w.count - 1 : w.slots[i] \in Nat
<1>1. w.count \in 0 .. JitterWindow /\ w.count \in Nat
  BY StatsAssumption DEF Windows
<1>2. ASSUME NEW i \in 0 .. w.count - 1 PROVE w.slots[i] \in Nat
  <2>1. i \in Slots
    BY <1>1, StatsAssumption DEF Slots
  <2>2. w.slots \in [Slots -> Samples] /\ Samples \subseteq Nat
    BY StatsAssumption DEF Windows, Samples
  <2> QED
    BY <2>1, <2>2
<1> QED
  BY <1>1, <1>2

\* Some natural number is at least as large as every sample.
LEMMA SamplesAreBounded ==
  ASSUME NEW w \in Windows
  PROVE  \E b \in Nat : \A i \in 0 .. w.count - 1 : w.slots[i] <= b
<1> DEFINE Bounds(b, n) == \A i \in 0 .. n - 1 : w.slots[i] <= b
           Unbounded == {n \in 0 .. w.count : ~ \E b \in Nat : Bounds(b, n)}
<1>0. w.count \in Nat /\ \A i \in 0 .. w.count - 1 : w.slots[i] \in Nat
  BY SamplesAreNatural
<1>1. SUFFICES ASSUME Unbounded # {} PROVE FALSE
  BY <1>0
<1>2. PICK n \in Unbounded : \A m \in Unbounded : n <= m
  <2>1. Unbounded \subseteq Nat
    BY <1>0
  <2> QED
    BY <1>1, <2>1, LeastNatural
<1>3. n \in Nat \ {0} /\ n <= w.count
  <2>1. Bounds(0, 0)
    OBVIOUS
  <2>2. n # 0
    BY <2>1
  <2> QED
    BY <1>0, <2>2
<1>4. PICK b \in Nat : Bounds(b, n - 1)
  <2>1. n - 1 \in 0 .. w.count /\ ~ (n <= n - 1)
    BY <1>0, <1>3
  <2>2. n - 1 \notin Unbounded
    BY <1>2, <2>1
  <2> QED
    BY <2>1, <2>2
<1>5. n - 1 \in 0 .. w.count - 1
  BY <1>0, <1>3
<1>6. \A i \in 0 .. n - 1 : i \in 0 .. w.count - 1 /\ (i = n - 1 \/ i \in 0 .. (n - 1) - 1)
  BY <1>0, <1>3
<1> DEFINE last == w.slots[n - 1]
<1>7. last \in Nat
  BY <1>0, <1>5
<1>8. \A i \in 0 .. n - 1 : w.slots[i] \in Nat /\ (w.slots[i] = last \/ w.slots[i] <= b)
  BY <1>0, <1>4, <1>6
<1> HIDE DEF last
<1>9. \E c \in Nat : Bounds(c, n)
  <2>1. CASE b <= last
    <3>1. Bounds(last, n)
      BY <1>7, <1>8, <2>1
    <3> QED
      BY <1>7, <3>1
  <2>2. CASE last <= b
    <3>1. Bounds(b, n)
      BY <1>7, <1>8, <2>2
    <3> QED
      BY <3>1
  <2> QED
    BY <1>7, <2>1, <2>2
<1> QED
  BY <1>2, <1>9

\* sorted[k] is one of the samples.
LEMMA SortedIsSample ==
  ASSUME NEW w \in Windows, NEW k \in 0 .. w.count - 1
  PROVE  \E i \in 0 .. w.count - 1 : Sorted(w, k) = w.slots[i]
<1> DEFINE held == 0 .. w.count - 1
           upTo(v)  == {i \in held : w.slots[i] <= v}
           below(v) == {i \in held : w.slots[i] < v}
           High == {v \in Nat : k < Cardinality(upTo(v))}
<1>1. w.count \in Nat /\ \A i \in held : w.slots[i] \in Nat
  BY SamplesAreNatural
<1>2. IsFiniteSet(held) /\ Cardinality(held) = w.count
  <2>1. 0 \in Int /\ w.count - 1 \in Int /\ 0 <= w.count - 1
    BY <1>1
  <2>2. Cardinality(held) = (w.count - 1) - 0 + 1
    BY <2>1, FS_Interval
  <2> QED
    BY <1>1, <2>1, <2>2, FS_Interval
<1>3. High # {}
  <2>1. PICK b \in Nat : \A i \in held : w.slots[i] <= b
    BY SamplesAreBounded
  <2>2. upTo(b) = held
    BY <2>1
  <2>3. Cardinality(upTo(b)) = w.count
    BY <1>2, <2>2
  <2>4. k < w.count
    BY <1>1
  <2> HIDE DEF upTo
  <2>5. k < Cardinality(upTo(b))
    BY <2>3, <2>4
  <2> QED
    BY <2>5
<1>4. PICK v \in High : \A m \in High : v <= m
  BY <1>3, LeastNatural
<1>5. v \in Nat /\ k < Cardinality(upTo(v)) /\ k \in Nat
  BY <1>1, <1>4
<1>6. \E i \in held : w.slots[i] = v
  <2> SUFFICES ASSUME \A i \in held : w.slots[i] # v PROVE FALSE
    OBVIOUS
  <2>1. CASE v = 0
    <3>1. upTo(v) = {}
      BY <1>1, <2>1
    <3> QED
      BY <1>5, <3>1, FS_EmptySet
  <2>2. CASE v > 0
    <3>1. upTo(v) = upTo(v - 1)
      BY <1>1, <1>5, <2>2
    <3>2. v - 1 \in High
      BY <1>5, <2>2, <3>1
    <3> QED
      BY <1>4, <1>5, <3>2
  <2> QED
    BY <1>5, <2>1, <2>2
<1>7. Cardinality(below(v)) <= k
  <2>1. CASE v = 0
    <3>1. below(v) = {}
      BY <1>1, <2>1
    <3> QED
      BY <1>5, <3>1, FS_EmptySet
  <2>2. CASE v > 0
    <3>1. below(v) = upTo(v - 1)
      BY <1>1, <1>5, <2>2
    <3>2. v - 1 \notin High /\ v - 1 \in Nat
      BY <1>4, <1>5, <2>2
    <3>3. Cardinality(upTo(v - 1)) \in Nat
      <4>1. upTo(v - 1) \subseteq held
        OBVIOUS
      <4> QED
        BY <1>2, <4>1, FS_Subset, FS_CardinalityType
    <3> QED
      BY <1>5, <3>1, <3>2, <3>3
  <2> QED
    BY <1>5, <2>1, <2>2
<1>8. v \in {w.slots[i] : i \in held}
  BY <1>6
<1>9. Sorted(w, k) \in {w.slots[i] : i \in held}
  BY <1>5, <1>7, <1>8 DEF Sorted
<1> QED
  BY <1>9

\* The median is half the sum of two of the samples.
LEMMA MedianOfTwo ==
  ASSUME NEW w \in Windows, w.count > 0
  PROVE  \E i, j \in 0 .. w.count - 1 : Median2(w) = w.slots[i] + w.slots[j]
<1> DEFINE mid == w.count \div 2
<1>1. w.count \in Nat /\ \A i \in 0 .. w.count - 1 : w.slots[i] \in Nat
  BY SamplesAreNatural
<1>2. mid \in 0 .. w.count - 1
  BY <1>1
<1>3. PICK i \in 0 .. w.count - 1 : Sorted(w, mid) = w.slots[i]
  BY <1>2, SortedIsSample
<1>4. CASE w.count % 2 = 1
  <2>1. Median2(w) = w.slots[i] + w.slots[i]
    BY <1>1, <1>3, <1>4 DEF Median2
  <2> QED
    BY <2>1
<1>5. CASE w.count % 2 # 1
  <2>1. mid - 1 \in 0 .. w.count - 1
    BY <1>1, <1>2, <1>5
  <2>2. PICK j \in 0 .. w.count - 1 : Sorted(w, mid - 1) = w.slots[j]
    BY <2>1, SortedIsSample
  <2>3. Median2(w) = w.slots[j] + w.slots[i]
    BY <1>3, <1>5, <2>2 DEF Median2
  <2> QED
    BY <2>3
<1> QED
  BY <1>4, <1>5

\* A time within the threshold of every sample is within the threshold of their median.
LEMMA NearEverySampleIsNotJittered ==
  ASSUME NEW w \in Windows, w.count > 0, NEW t \in Nat,
         \A i \in 0 .. w.count - 1 : 100 * (t - w.slots[i]) <= JitterPct * w.slots[i]
  PROVE  ~IsJittered(w, t)
<1>1. PICK i, j \in 0 .. w.count - 1 : Median2(w) = w.slots[i] + w.slots[j]
  BY MedianOfTwo
<1> DEFINE a == w.slots[i]
           b == w.slots[j]
<1>2. a \in Nat /\ b \in Nat
  BY SamplesAreNatural
<1>3. 100 * (t - a) <= JitterPct * a /\ 100 * (t - b) <= JitterPct * b
  OBVIOUS
<1>4. Median2(w) = a + b
  BY <1>1
<1> HIDE DEF a, b
<1>5. JitterPct * a \in Nat /\ JitterPct * b \in Nat
      /\ JitterPct * (a + b) = JitterPct * a + JitterPct * b
  BY <1>2, StatsAssumption
<1>6. 100 * (2 * t - (a + b)) <= JitterPct * (a + b)
  BY <1>2, <1>3, <1>5
<1>7. ~(100 * (2 * t - (a + b)) > JitterPct * (a + b))
  BY <1>2, <1>5, <1>6
<1> QED
  BY <1>4, <1>7 DEF IsJittered

\* A baseline that a level shift lands on calls none of its own samples an outlier: the run that
\* became the baseline was level, and the median lies between two of its slices.
THEOREM ShiftedBaselineSteady == Spec => ShiftedBaselineIsSteady
<1>1. ASSUME Inv, Inv', [Next]_vars, levelShifts' # levelShifts,
             NEW i \in 0 .. window'.count - 1
      PROVE  ~IsJittered(window', window'.slots[i])
  <2> DEFINE n == consecutiveDiscards + 1
  <2>1. PICK t \in WallTimes : ShiftLevel(t)
    BY <1>1, OnlyShiftLevelShifts
  <2>2. window' = WindowOfRun(discardRun', n) /\ DiscardRunIsLevel(discardRun', n)
    BY <2>1 DEF ShiftLevel, ShiftBaseline, LevelShiftDue
  <2>3. window' \in Windows /\ discardRun' \in [Slots -> Samples] /\ n \in Nat \ {0}
    BY <1>1 DEF Inv, TypeOK
  <2>4. /\ window'.count = Lesser(n, JitterWindow) /\ window'.count > 0
        /\ RunSlots(n) = 0 .. window'.count - 1
        /\ RunSlots(n) \subseteq Slots
    BY <2>2, <2>3, StatsAssumption DEF WindowOfRun, RunSlots, Slots, Lesser
  <2>5. \A j \in 0 .. window'.count - 1 : window'.slots[j] = discardRun'[j]
    BY <2>2, <2>4 DEF WindowOfRun
  <2>6. window'.slots[i] \in Nat
    BY <2>3, SamplesAreNatural
  <2>7. \A j \in 0 .. window'.count - 1 :
           100 * (window'.slots[i] - window'.slots[j]) <= JitterPct * window'.slots[j]
    BY <2>2, <2>4, <2>5 DEF DiscardRunIsLevel
  <2> QED
    BY <2>3, <2>4, <2>6, <2>7, NearEverySampleIsNotJittered
<1>2. Inv /\ Inv' /\ [Next]_vars =>
        [levelShifts' # levelShifts =>
            \A i \in 0 .. window'.count - 1 : ~IsJittered(window', window'.slots[i])]_vars
  BY <1>1
<1> QED
  BY <1>2, InvHolds, PTL DEF Spec, ShiftedBaselineIsSteady

-----------------------------------------------------------------------------
(* The budget of slices.                                                    *)

\* One level shift less is one allowance less.
LEMMA OneLess ==
  ASSUME NEW m \in Nat, NEW k \in Nat
  PROVE  /\ m * k \in Nat
         /\ m > 0 => (m - 1) * k = m * k - k
OBVIOUS

\* The shifts left to a run are a natural number.
LEMMA ShiftsLeft ==
  ASSUME NEW n \in 0 .. MaxLevelShifts
  PROVE  MaxLevelShifts - n \in Nat
<1>1. MaxLevelShifts \in Nat
  BY StatsAssumption
<1> QED
  BY <1>1

\* A slice, accepted, discarded or starting a new level, uses up some of the budget.
LEMMA SliceUsesBudget ==
  ASSUME Inv, Inv', [Next]_vars, phase = "slicing", phase' = "deciding"
  PROVE  0 <= Budget' /\ Budget' < Budget
<1> DEFINE allowance == knobs.maxSlices + knobs.consecutiveDiscardCap
           left(shifts) == MaxLevelShifts - shifts
<1>1. /\ knobs \in Knobs /\ left(levelShifts) \in Nat
      /\ acceptedSlices \in Nat /\ consecutiveDiscards \in Nat /\ totalDiscards \in Nat
      /\ acceptedSlices < knobs.maxSlices
      /\ consecutiveDiscards < knobs.consecutiveDiscardCap
      /\ totalDiscards < knobs.totalDiscardCap
      /\ consecutiveDiscards <= totalDiscards
  BY StatsAssumption DEF Inv, TypeOK, DiscardsAreAccounted
<1>2. /\ acceptedSlices' \in Nat /\ totalDiscards' \in Nat /\ left(levelShifts') \in Nat
      /\ acceptedSlices' <= knobs'.maxSlices
      /\ totalDiscards' <= knobs'.totalDiscardCap
  <2>1. TypeOK' /\ DiscardsAreAccounted' /\ AcceptedWithinCap'
    BY DEF Inv
  <2>2. acceptedSlices' \in Nat /\ totalDiscards' \in Nat /\ levelShifts' \in 0 .. MaxLevelShifts
    BY <2>1 DEF TypeOK
  <2>3. MaxLevelShifts - levelShifts' \in Nat
    BY <2>2, ShiftsLeft
  <2>4. phase' # "calibrating"
    OBVIOUS
  <2> QED
    BY <2>1, <2>2, <2>3, <2>4 DEF DiscardsAreAccounted, AcceptedWithinCap
<1>3. PICK t \in WallTimes : FeedSlice(t)
  BY DEF Next, DeriveKnobs, ShouldStop, StopConsecutive, StopTotal, StopHardCap,
              StopConverged, Stop, KeepGoing, vars
<1>4. knobs' = knobs
  BY <1>3 DEF FeedSlice, AcceptSlice, DiscardSlice, ShiftLevel, ShiftBaseline, Discard
<1>5. /\ knobs.maxSlices \in Nat /\ knobs.totalDiscardCap \in Nat
      /\ knobs.consecutiveDiscardCap \in Nat /\ allowance \in Nat
  BY <1>1 DEF Knobs
<1>6. left(levelShifts) * allowance \in Nat /\ left(levelShifts') * allowance \in Nat
  BY <1>1, <1>2, <1>5, OneLess
<1>7. Budget = left(levelShifts) * allowance + (knobs.maxSlices - acceptedSlices)
                 + (knobs.totalDiscardCap - totalDiscards)
  BY DEF Budget
<1>8. Budget' = left(levelShifts') * allowance + (knobs.maxSlices - acceptedSlices')
                  + (knobs.totalDiscardCap - totalDiscards')
  BY <1>4 DEF Budget
<1>9. 0 <= Budget'
  BY <1>2, <1>4, <1>5, <1>6, <1>8
<1>10. CASE AcceptSlice(t)
  <2>1. left(levelShifts') = left(levelShifts) /\ acceptedSlices' = acceptedSlices + 1 /\ totalDiscards' = totalDiscards
    BY <1>10 DEF AcceptSlice
  <2> HIDE DEF left, allowance
  <2> QED
    BY <1>1, <1>5, <1>6, <1>7, <1>8, <1>9, <2>1
<1>11. CASE DiscardSlice(t)
  <2>1. left(levelShifts') = left(levelShifts) /\ acceptedSlices' = acceptedSlices /\ totalDiscards' = totalDiscards + 1
    BY <1>11 DEF DiscardSlice
  <2> HIDE DEF left, allowance
  <2> QED
    BY <1>1, <1>5, <1>6, <1>7, <1>8, <1>9, <2>1
<1>12. CASE ShiftLevel(t)
  <2>1. /\ acceptedSlices' = 0
        /\ totalDiscards' = totalDiscards - consecutiveDiscards
        /\ left(levelShifts') = left(levelShifts) - 1 /\ left(levelShifts) > 0
    BY <1>1, <1>12, StatsAssumption DEF ShiftLevel, ShiftBaseline, LevelShiftDue, Inv, TypeOK
  <2>2. left(levelShifts') * allowance = left(levelShifts) * allowance - allowance
    BY <1>1, <1>5, <2>1, OneLess
  <2>3. allowance = knobs.maxSlices + knobs.consecutiveDiscardCap
    OBVIOUS
  <2> HIDE DEF left, allowance
  <2> QED
    BY <1>1, <1>5, <1>6, <1>7, <1>8, <1>9, <2>1, <2>2, <2>3
<1> QED
  BY <1>3, <1>9, <1>10, <1>11, <1>12 DEF FeedSlice

\* The loop cannot run for ever: every slice uses up some of a budget that is never negative.
THEOREM SlicesCount == Spec => EverySliceCounts
<1>1. Inv /\ Inv' /\ [Next]_vars =>
        [phase = "slicing" /\ phase' = "deciding" => 0 <= Budget' /\ Budget' < Budget]_vars
  BY SliceUsesBudget
<1> QED
  BY <1>1, InvHolds, PTL DEF Spec, EverySliceCounts

\* Once the knobs are derived the budget is a natural number, and it is positive at first.
LEMMA BudgetType ==
  ASSUME Inv, phase # "calibrating"
  PROVE  /\ Budget \in Nat
         /\ acceptedSlices = 0 => Budget > 0
<1>1. MaxLevelShifts - levelShifts \in Nat
  BY ShiftsLeft DEF Inv, TypeOK
<1>2. /\ knobs.maxSlices \in Nat \ {0} /\ knobs.consecutiveDiscardCap \in Nat
      /\ knobs.totalDiscardCap \in Nat
  BY DEF Inv, TypeOK, Knobs
<1>3. (MaxLevelShifts - levelShifts) * (knobs.maxSlices + knobs.consecutiveDiscardCap) \in Nat
  BY <1>1, <1>2, OneLess
<1>4. /\ acceptedSlices \in Nat /\ acceptedSlices <= knobs.maxSlices
      /\ totalDiscards \in Nat /\ totalDiscards <= knobs.totalDiscardCap
  BY DEF Inv, TypeOK, DiscardsAreAccounted, AcceptedWithinCap
<1> QED
  BY <1>2, <1>3, <1>4 DEF Budget

-----------------------------------------------------------------------------
(* What the window holds.  A run of discards longer than the ring would be  *)
(* pushed in the wrong order, so the caps on the run must fit the window.   *)

CapsWithinWindow ==
  /\ DerivedConsecutiveCap <= JitterWindow
  /\ \A config \in ConfigKnobs : config.consecutiveDiscardCap <= JitterWindow

\* What the knobs of a run then satisfy.
CapFits == phase # "calibrating" => knobs.consecutiveDiscardCap <= JitterWindow

\* The slot of the i-th oldest sample.
Place(w, i) ==
  LET n == (IF w.count < JitterWindow THEN 0 ELSE w.next) + i - 1
  IN  IF n < JitterWindow THEN n ELSE n - JitterWindow

\* The window is s in the order it was measured, starting at the oldest slot.
InOrder(w, s) ==
  /\ Len(s) = w.count
  /\ w.count < JitterWindow => w.next = w.count
  /\ \A i \in 1 .. w.count : s[i] = w.slots[Place(w, i)]

\* A number leaves no remainder of itself.
LEMMA OwnMultiple ==
  ASSUME NEW n \in Nat \ {0}
  PROVE  n % n = 0
OBVIOUS

\* Pushing a sample overwrites the oldest once the window is full.
LEMMA PushInOrder ==
  ASSUME NEW w \in Windows, NEW s \in Seq(Samples), NEW t \in Samples, InOrder(w, s)
  PROVE  InOrder(Push(w, t), NewestSamples(Append(s, t)))
<1> DEFINE v == Push(w, t)
           r == NewestSamples(Append(s, t))
<1> SUFFICES InOrder(v, r)
  OBVIOUS
<1>1. /\ JitterWindow \in Nat \ {0} /\ w.count \in 0 .. JitterWindow
      /\ w.next \in 0 .. JitterWindow - 1
      /\ w.slots \in [0 .. JitterWindow - 1 -> Samples]
  BY StatsAssumption DEF Windows, Slots
<1>2. v.next = IF w.next + 1 < JitterWindow THEN w.next + 1 ELSE 0
  <2>1. CASE w.next + 1 < JitterWindow
    <3>1. (w.next + 1) % JitterWindow = w.next + 1
      <4>1. w.next + 1 \in Nat
        BY <1>1
      <4> QED
        BY <2>1, <4>1, SlotIndex
    <3> QED
      BY <2>1, <3>1 DEF Push
  <2>2. CASE w.next + 1 = JitterWindow
    <3>1. (w.next + 1) % JitterWindow = 0
      BY <1>1, <2>2, OwnMultiple
    <3> QED
      BY <1>1, <2>2, <3>1 DEF Push
  <2> QED
    BY <1>1, <2>1, <2>2
<1>3. /\ v.slots = [w.slots EXCEPT ![w.next] = t]
      /\ v.count = IF w.count < JitterWindow THEN w.count + 1 ELSE JitterWindow
  BY <1>1 DEF Push, Lesser
<1>4. /\ Len(s) = w.count /\ Len(Append(s, t)) = w.count + 1
      /\ \A i \in 1 .. w.count : Append(s, t)[i] = s[i]
      /\ Append(s, t)[w.count + 1] = t
  BY DEF InOrder
<1> HIDE DEF v, r
<1>5. CASE w.count < JitterWindow
  <2>1. r = Append(s, t) /\ w.next = w.count /\ v.count = w.count + 1
    BY <1>1, <1>3, <1>4, <1>5 DEF NewestSamples, InOrder, r
  <2>2. ASSUME NEW i \in 1 .. v.count PROVE r[i] = v.slots[Place(v, i)]
    <3>1. Place(v, i) = i - 1
      BY <1>1, <1>2, <1>5, <2>1 DEF Place
    <3>2. CASE i = w.count + 1
      BY <1>1, <1>3, <1>4, <2>1, <3>1, <3>2
    <3>3. CASE i \in 1 .. w.count
      <4>1. Place(w, i) = i - 1
        BY <1>1, <1>5, <3>3 DEF Place
      <4>2. s[i] = w.slots[i - 1]
        BY <3>3, <4>1 DEF InOrder
      <4> QED
        BY <1>1, <1>3, <1>4, <2>1, <3>1, <3>3, <4>2
    <3>4. i = w.count + 1 \/ i \in 1 .. w.count
      BY <1>1, <2>1
    <3> QED
      BY <3>2, <3>3, <3>4
  <2>3. Len(r) = v.count /\ (v.count < JitterWindow => v.next = v.count)
    BY <1>1, <1>2, <1>4, <2>1
  <2> QED
    BY <2>2, <2>3 DEF InOrder
<1>6. CASE w.count = JitterWindow
  <2>1. v.count = JitterWindow
    BY <1>1, <1>3, <1>6
  <2>2. Append(s, t) \in Seq(Samples)
    OBVIOUS
  <2>3. /\ Len(r) = JitterWindow
        /\ \A i \in 1 .. JitterWindow : r[i] = Append(s, t)[i + 1]
    BY <1>1, <1>4, <1>6, <2>2 DEF NewestSamples, r
  <2>4. ASSUME NEW i \in 1 .. JitterWindow PROVE r[i] = v.slots[Place(v, i)]
    <3>1. CASE i = JitterWindow
      <4>1. Place(v, i) = w.next
        BY <1>1, <1>2, <2>1, <3>1 DEF Place
      <4> QED
        BY <1>1, <1>3, <1>4, <1>6, <2>3, <3>1, <4>1
    <3>2. CASE i + 1 \in 1 .. JitterWindow
      <4>1. /\ Place(v, i) = Place(w, i + 1)
            /\ Place(w, i + 1) \in 0 .. JitterWindow - 1 /\ Place(w, i + 1) # w.next
        BY <1>1, <1>2, <1>6, <2>1, <3>2 DEF Place
      <4>2. s[i + 1] = w.slots[Place(w, i + 1)]
        BY <1>6, <3>2 DEF InOrder
      <4>3. r[i] = s[i + 1]
        BY <1>4, <1>6, <2>3, <3>2
      <4> QED
        BY <1>1, <1>3, <4>1, <4>2, <4>3
    <3> QED
      BY <1>1, <3>1, <3>2
  <2> QED
    BY <1>1, <2>1, <2>3, <2>4 DEF InOrder
<1> QED
  BY <1>1, <1>5, <1>6

\* A run of discards that fits the ring is in order there from slot 0 on.
LEMMA WindowOfRunInOrder ==
  ASSUME NEW ring \in [Slots -> Samples], NEW n \in 1 .. JitterWindow
  PROVE  InOrder(WindowOfRun(ring, n), RunInOrder(ring, n))
<1> DEFINE w == WindowOfRun(ring, n)
           s == RunInOrder(ring, n)
<1>1. JitterWindow \in Nat \ {0} /\ n \in 1 .. JitterWindow /\ Lesser(n, JitterWindow) = n
  BY StatsAssumption DEF Lesser
<1>2. w.count = n /\ w.next = IF n < JitterWindow THEN n ELSE 0
  BY <1>1 DEF WindowOfRun
<1>3. s = [i \in 1 .. n |-> ring[(n - n + i - 1) % JitterWindow]]
  BY <1>1 DEF RunInOrder
<1>4. ASSUME NEW i \in 1 .. n PROVE s[i] = w.slots[Place(w, i)]
  <2>1. Place(w, i) = i - 1
    BY <1>1, <1>2 DEF Place
  <2>2. i - 1 \in RunSlots(n) /\ i - 1 \in Slots /\ (n - n + i - 1) % JitterWindow = i - 1
    BY <1>1 DEF RunSlots, Slots
  <2>3. w.slots[i - 1] = ring[i - 1]
    BY <2>2 DEF WindowOfRun
  <2> QED
    BY <1>3, <2>1, <2>2, <2>3
<1>5. Len(s) = n
  BY <1>1, <1>3
<1> HIDE DEF w, s
<1> QED
  BY <1>2, <1>4, <1>5 DEF InOrder, w, s

\* Where a time stands in the window, and where in the sequence.
HeldAt(w, t)  == {i \in 0 .. w.count - 1 : w.slots[i] = t}
TakenAt(s, t) == {i \in DOMAIN s : s[i] = t}

\* Place is a bijection, so a window in order holds each sample as often as the sequence does.
LEMMA SameSamples ==
  ASSUME NEW w \in Windows, NEW s \in Seq(Samples), InOrder(w, s), NEW t
  PROVE  Cardinality(HeldAt(w, t)) = Cardinality(TakenAt(s, t))
<1> DEFINE A == {i \in DOMAIN s : s[i] = t}
           B == {i \in 0 .. w.count - 1 : w.slots[i] = t}
           f == [i \in A |-> Place(w, i)]
<1>1. /\ JitterWindow \in Nat \ {0} /\ w.count \in 0 .. JitterWindow
      /\ w.next \in 0 .. JitterWindow - 1
  BY StatsAssumption DEF Windows, Slots
<1>2. DOMAIN s = 1 .. w.count
  BY DEF InOrder
<1>3. ASSUME NEW i \in 1 .. w.count
      PROVE  Place(w, i) \in 0 .. w.count - 1 /\ s[i] = w.slots[Place(w, i)]
  <2>1. Place(w, i) \in 0 .. w.count - 1
    BY <1>1 DEF Place
  <2> QED
    BY <2>1 DEF InOrder
<1>4. f \in [A -> B]
  BY <1>2, <1>3
<1>5. ASSUME NEW i \in A, NEW j \in A, f[i] = f[j] PROVE i = j
  BY <1>1, <1>2, <1>5 DEF Place
<1>6. ASSUME NEW k \in B PROVE \E i \in A : f[i] = k
  <2>1. \E i \in 1 .. w.count : Place(w, i) = k
    <3>1. CASE w.count < JitterWindow
      <4>1. k + 1 \in 1 .. w.count /\ Place(w, k + 1) = k
        BY <1>1, <3>1 DEF Place
      <4> QED
        BY <4>1
    <3>2. CASE w.count = JitterWindow /\ w.next <= k
      <4>1. k - w.next + 1 \in 1 .. w.count /\ Place(w, k - w.next + 1) = k
        BY <1>1, <3>2 DEF Place
      <4> QED
        BY <4>1
    <3>3. CASE w.count = JitterWindow /\ k < w.next
      <4> DEFINE i == k - w.next + 1 + JitterWindow
      <4>1. i \in 1 .. w.count /\ Place(w, i) = k
        BY <1>1, <3>3 DEF Place
      <4> QED
        BY <4>1
    <3> QED
      BY <1>1, <3>1, <3>2, <3>3
  <2>2. PICK i \in 1 .. w.count : Place(w, i) = k
    BY <2>1
  <2>3. i \in A
    BY <1>2, <1>3, <2>2
  <2> QED
    BY <2>2, <2>3
<1>7. ExistsBijection(A, B)
  <2> HIDE DEF A, B, f
  <2>1. f \in Bijection(A, B)
    <3>1. f \in Injection(A, B)
      BY <1>4, <1>5 DEF Injection, IsInjective
    <3>2. f \in Surjection(A, B)
      BY <1>4, <1>6 DEF Surjection
    <3> QED
      BY <3>1, <3>2 DEF Bijection
  <2> QED
    BY <2>1 DEF ExistsBijection
<1>8. IsFiniteSet(A)
  <2>1. IsFiniteSet(1 .. w.count)
    <3>1. 1 \in Int /\ w.count \in Int
      BY <1>1
    <3> QED
      BY <3>1, FS_Interval
  <2>2. A \in SUBSET (1 .. w.count)
    BY <1>2
  <2> QED
    BY <2>1, <2>2, FS_Subset
<1> HIDE DEF A, B, f
<1>9. Cardinality(B) = Cardinality(A)
  BY <1>7, <1>8, FS_Bijection
<1> QED
  BY <1>9 DEF A, B, HeldAt, TakenAt

\* The strengthening: the order of the ring, which the next push relies on.
NInv == Inv /\ CapFits /\ InOrder(window, recent)

LEMMA InitNewest == Init => NInv
<1> SUFFICES ASSUME Init PROVE NInv
  OBVIOUS
<1>1. InOrder(window, recent)
  <2>1. window.count = 0 /\ window.next = 0 /\ recent = <<>>
    BY DEF Init, EmptyWindow
  <2> QED
    BY <2>1 DEF InOrder
<1> QED
  BY <1>1, InitInv DEF NInv, CapFits, Init

LEMMA NextNewest ==
  ASSUME CapsWithinWindow
  PROVE  NInv /\ [Next]_vars => NInv'
<1> SUFFICES ASSUME NInv, [Next]_vars PROVE NInv'
  OBVIOUS
<1>1. Inv /\ Inv' /\ window \in Windows /\ recent \in Seq(Samples)
  BY NextInv DEF NInv, Inv, TypeOK
<1>2. ASSUME UNCHANGED <<window, recent>> PROVE InOrder(window, recent)'
  BY <1>2 DEF NInv, InOrder, Place
<1>3. ASSUME UNCHANGED knobs, phase # "calibrating" PROVE CapFits'
  BY <1>3 DEF NInv, CapFits
<1>4. CASE \E tier \in Tiers, config \in ConfigKnobs : DeriveKnobs(tier, config)
  <2>1. PICK tier \in Tiers, config \in ConfigKnobs : DeriveKnobs(tier, config)
    BY <1>4
  <2>2. knobs'.consecutiveDiscardCap <= JitterWindow
    BY <2>1, StatsAssumption
    DEF DeriveKnobs, DerivedKnobs, Override, CapsWithinWindow
  <2>3. UNCHANGED <<window, recent>>
    BY <2>1 DEF DeriveKnobs, baseline
  <2> QED
    BY <1>1, <1>2, <2>2, <2>3 DEF NInv, CapFits
<1>5. ASSUME NEW t \in WallTimes, AcceptSlice(t) PROVE NInv'
  <2>1. t \in Samples
    BY DEF Samples
  <2>2. InOrder(window, recent)'
    <3>1. InOrder(Push(window, t), NewestSamples(Append(recent, t)))
      BY <1>1, <2>1, PushInOrder DEF NInv
    <3>2. window' = Push(window, t) /\ recent' = NewestSamples(Append(recent, t))
      BY <1>5 DEF AcceptSlice
    <3> QED
      BY <3>1, <3>2 DEF InOrder, Place
  <2> QED
    BY <1>1, <1>3, <1>5, <2>2 DEF NInv, AcceptSlice
<1>6. ASSUME NEW t \in WallTimes, DiscardSlice(t) PROVE NInv'
  BY <1>1, <1>2, <1>3, <1>6 DEF NInv, DiscardSlice, Discard
<1>7. ASSUME NEW t \in WallTimes, ShiftLevel(t) PROVE NInv'
  <2>1. Discard(t) /\ phase # "calibrating" /\ UNCHANGED knobs
    BY <1>7 DEF ShiftLevel, ShiftBaseline, Discard
  <2>2. discardRun' \in [Slots -> Samples] /\ consecutiveDiscards + 1 \in 1 .. JitterWindow
    <3>1. /\ discardRun' \in [Slots -> Samples] /\ maxConsecutiveDiscards' \in Nat
          /\ consecutiveDiscards + 1 <= maxConsecutiveDiscards'
          /\ maxConsecutiveDiscards' <= knobs.consecutiveDiscardCap
      BY <1>1, <2>1, DiscardType
    <3>2. knobs.consecutiveDiscardCap <= JitterWindow /\ knobs.consecutiveDiscardCap \in Nat
      BY <1>1, <2>1 DEF NInv, CapFits, Inv, TypeOK, Knobs
    <3> QED
      BY <1>1, <3>1, <3>2, StatsAssumption DEF Inv, TypeOK
  <2>3. InOrder(window, recent)'
    <3>1. InOrder(WindowOfRun(discardRun', consecutiveDiscards + 1),
                  RunInOrder(discardRun', consecutiveDiscards + 1))
      BY <2>2, WindowOfRunInOrder
    <3>2. /\ window' = WindowOfRun(discardRun', consecutiveDiscards + 1)
          /\ recent' = RunInOrder(discardRun', consecutiveDiscards + 1)
      BY <1>7 DEF ShiftLevel, ShiftBaseline
    <3> QED
      BY <3>1, <3>2 DEF InOrder, Place
  <2> QED
    BY <1>1, <1>3, <2>1, <2>3 DEF NInv
<1>8. CASE ShouldStop
  <2>1. UNCHANGED <<window, recent, knobs>> /\ phase # "calibrating"
    BY <1>8 DEF ShouldStop, StopConsecutive, StopTotal, StopHardCap, StopConverged, Stop,
                KeepGoing, baseline
  <2> QED
    BY <1>1, <1>2, <1>3, <2>1 DEF NInv
<1>9. CASE UNCHANGED vars
  BY <1>1, <1>2, <1>9 DEF NInv, CapFits, vars, baseline
<1> QED
  BY <1>4, <1>5, <1>6, <1>7, <1>8, <1>9 DEF Next, FeedSlice

\* The median is always taken over exactly the newest baseline samples: no push, wrap-around or
\* level shift leaves a stale one in the ring, whatever the size of the window, as long as no cap
\* lets a run of discards outgrow it.
THEOREM WindowIsNewest ==
  ASSUME CapsWithinWindow
  PROVE  Spec => []WindowHoldsNewest
<1>1. NInv => WindowHoldsNewest
  <2> SUFFICES ASSUME NInv PROVE WindowHoldsNewest
    OBVIOUS
  <2>1. window \in Windows /\ recent \in Seq(Samples) /\ InOrder(window, recent)
    BY DEF NInv, Inv, TypeOK
  <2>2. window.count = Len(recent)
    BY <2>1 DEF InOrder
  <2>3. ASSUME NEW t \in WallTimes
        PROVE  Cardinality(HeldAt(window, t)) = Cardinality(TakenAt(recent, t))
    BY <2>1, SameSamples
  <2> QED
    BY <2>2, <2>3 DEF WindowHoldsNewest, HeldAt, TakenAt
<1>2. NInv /\ [Next]_vars => NInv'
  BY NextNewest
<1> QED
  BY <1>1, <1>2, InitNewest, PTL DEF Spec
=============================================================================
