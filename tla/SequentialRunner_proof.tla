----------------------- MODULE SequentialRunner_proof -----------------------
(***************************************************************************)
(* Proofs about SequentialRunner: its control, and that every run keeps    *)
(* RunContract, for every fixture, Config and machine.                     *)
(***************************************************************************)
EXTENDS SequentialRunner, StatsAccumulator_proof

Preparing == {"startup", "correctness", "warmup", "probe", "calibrate"}
Measuring == {"slice", "reset", "hash", "validate", "feed"}
Closing   == {"teardown", "assemble"}

\* Where the runner is, against the phase of the statistics and the life of the fixture.
Control ==
  /\ pc \in Preparing \union Measuring \union Closing \union {"decide", "done"}
  /\ pc \in Preparing => phase = "calibrating"
  /\ pc \in Measuring => phase = "slicing"
  /\ pc = "decide" => phase = "deciding"
  /\ pc \in Closing => phase = "stopped"
  /\ fixture = IF pc = "startup" THEN "unstarted"
               ELSE IF pc \in {"assemble", "done"} THEN "down" ELSE "live"

\* What the runner hands from one step to the next.
Handed ==
  /\ config \in Configs
  /\ pc \in {"reset", "hash", "validate", "feed"} => timing \in WallTimes
  /\ pc \in {"slice", "hash", "validate", "feed", "decide"} => work = 0

RInv == Inv /\ Control /\ Handed

-----------------------------------------------------------------------------
(* Each step of the runner is a step of the statistics, or leaves them alone. *)

LEMMA RunnerStepsStats ==
  ASSUME RInv, RunnerNext
  PROVE  [Next]_vars
<1>1. CASE Calibrate
  <2>1. config.knobs \in ConfigKnobs
    BY RunnerAssumption DEF RInv, Handed, ConfigSpace
  <2> QED
    BY <1>1, <2>1 DEF Calibrate, Next
<1>2. CASE FeedStats
  BY <1>2 DEF FeedStats, RInv, Handed, Next
<1>3. CASE Decide
  BY <1>3 DEF Decide, Next
<1>4. CASE UNCHANGED vars
  BY <1>4
<1> QED
  BY <1>1, <1>2, <1>3, <1>4
  DEF RunnerNext, Startup, Warmup, TakeConfiguredIterations, ColdProbe, Probe,
      TakeAutoIterations, ExecuteSlice, ResetSlice, HashSlice, Validate, Teardown,
      AssembleResult, RunCorrectnessOnce

\* The phases the three calls on the statistics lead to.
LEMMA CallsMovePhase ==
  /\ \A tier \in Tiers, knobsGiven \in ConfigKnobs :
        DeriveKnobs(tier, knobsGiven) => phase' = "slicing"
  /\ \A t \in WallTimes : FeedSlice(t) => phase' = "deciding"
  /\ ShouldStop => phase' \in {"stopped", "slicing"}
BY DEF DeriveKnobs, FeedSlice, AcceptSlice, DiscardSlice, ShiftLevel, ShiftBaseline, Discard,
       ShouldStop, StopConsecutive, StopTotal, StopHardCap, StopConverged, Stop, KeepGoing

LEMMA RunnerInitRInv == RunnerInit => RInv
BY InitInv DEF RunnerInit, RInv, Control, Handed, Init, Preparing, Measuring, Closing

\* Steps that leave the statistics alone only move the control.
LEMMA OutsideStepsKeepControl ==
  ASSUME RInv, UNCHANGED vars,
         \/ Startup \/ Warmup \/ TakeConfiguredIterations \/ ColdProbe \/ Probe
         \/ TakeAutoIterations \/ ExecuteSlice \/ ResetSlice \/ HashSlice \/ Validate
         \/ Teardown \/ AssembleResult \/ RunCorrectnessOnce
  PROVE  Control' /\ Handed'
<1> USE DEF RInv, Control, Handed, Preparing, Measuring, Closing
<1>1. phase' = phase
  BY DEF vars
<1>2. CASE Startup
  BY <1>1, <1>2 DEF Startup, plan
<1>3. CASE Warmup \/ TakeConfiguredIterations \/ ColdProbe
  BY <1>1, <1>3 DEF Warmup, TakeConfiguredIterations, ColdProbe, RunSlice, plan, fixtureVars
<1>4. CASE Probe \/ TakeAutoIterations
  BY <1>1, <1>4 DEF Probe, TakeAutoIterations, RunSlice, plan, fixtureVars
<1>5. CASE ExecuteSlice \/ ResetSlice
  BY <1>1, <1>5 DEF ExecuteSlice, ResetSlice, plan, progress
<1>6. CASE HashSlice \/ Validate
  BY <1>1, <1>6 DEF HashSlice, Validate, plan, progress, fixtureVars
<1>7. CASE Teardown \/ AssembleResult \/ RunCorrectnessOnce
  BY <1>1, <1>7 DEF Teardown, AssembleResult, RunCorrectnessOnce, plan, progress, fixtureVars
<1> QED
  BY <1>2, <1>3, <1>4, <1>5, <1>6, <1>7

\* The three steps that call the statistics.
LEMMA StatsStepsKeepControl ==
  ASSUME RInv, Calibrate \/ FeedStats \/ Decide
  PROVE  Control' /\ Handed'
<1> USE DEF RInv, Control, Handed, Preparing, Measuring, Closing
<1>1. CASE Calibrate
  <2>1. config.knobs \in ConfigKnobs
    BY RunnerAssumption DEF ConfigSpace
  <2>2. phase' = "slicing"
    BY <1>1, <2>1, CallsMovePhase DEF Calibrate
  <2> QED
    BY <1>1, <2>2 DEF Calibrate, RunSlice, plan
<1>2. CASE FeedStats
  <2>1. phase' = "deciding"
    BY <1>2, CallsMovePhase DEF FeedStats
  <2> QED
    BY <1>2, <2>1 DEF FeedStats, plan, fixtureVars
<1>3. CASE Decide
  <2>1. phase' \in {"stopped", "slicing"}
    BY <1>3, CallsMovePhase DEF Decide
  <2> QED
    BY <1>3, <2>1 DEF Decide, plan, fixtureVars, progress
<1> QED
  BY <1>1, <1>2, <1>3

\* The runner's steps other than its calls on the statistics leave their variables alone.
LEMMA OutsideStepsKeepStats ==
  ASSUME \/ Startup \/ Warmup \/ TakeConfiguredIterations \/ ColdProbe \/ Probe
         \/ TakeAutoIterations \/ ExecuteSlice \/ ResetSlice \/ HashSlice \/ Validate
         \/ Teardown \/ AssembleResult \/ RunCorrectnessOnce
  PROVE  UNCHANGED vars
BY DEF Startup, Warmup, TakeConfiguredIterations, ColdProbe, Probe, TakeAutoIterations,
       ExecuteSlice, ResetSlice, HashSlice, Validate, Teardown, AssembleResult,
       RunCorrectnessOnce

LEMMA RunnerNextRInv == RInv /\ [RunnerNext]_rvars => RInv'
<1> SUFFICES ASSUME RInv, [RunnerNext]_rvars PROVE RInv'
  OBVIOUS
<1>1. CASE RunnerNext
  <2>1. Inv'
    BY <1>1, RunnerStepsStats, NextInv DEF RInv
  <2>2. Control' /\ Handed'
    BY <1>1, OutsideStepsKeepStats, OutsideStepsKeepControl, StatsStepsKeepControl
    DEF RunnerNext
  <2> QED
    BY <2>1, <2>2 DEF RInv
<1>2. CASE UNCHANGED rvars
  <2>1. UNCHANGED vars
    BY <1>2 DEF rvars
  <2>2. Inv'
    BY <2>1, NextInv DEF RInv
  <2>3. Control' /\ Handed'
    BY <1>2 DEF rvars, vars, RInv, Control, Handed, plan, progress, fixtureVars
  <2> QED
    BY <2>2, <2>3 DEF RInv
<1> QED
  BY <1>1, <1>2

LEMMA AlwaysRInv == RunnerSpec => []RInv
BY RunnerInitRInv, RunnerNextRInv, PTL DEF RunnerSpec

\* Every measured slice starts from a live fixture that was reset after its last execute.
THEOREM SlicesStartCleanAlways == RunnerSpec => []SlicesStartClean
<1>1. RInv => SlicesStartClean
  BY DEF RInv, Control, Handed, SlicesStartClean
<1> QED
  BY <1>1, AlwaysRInv, PTL

\* The statistics a run owns behave as StatsAccumulator does on its own, so what is proved
\* of it there holds in every run.
THEOREM RunnerDrivesStats == RunnerSpec => Init /\ [][Next]_vars
<1>1. RunnerInit => Init
  BY DEF RunnerInit
<1>2. RInv /\ [RunnerNext]_rvars => [Next]_vars
  BY RunnerStepsStats DEF rvars
<1> QED
  BY <1>1, <1>2, AlwaysRInv, PTL DEF RunnerSpec

-----------------------------------------------------------------------------
(* The slices the validator saw against those the statistics kept. *)

BeforeFeed == {"slice", "reset", "hash", "validate"}

Accounting ==
  /\ currentSlice \in Nat
  /\ pc # "feed" => /\ acceptedSlices + totalDiscards <= currentSlice
                    /\ levelShifts = 0 => acceptedSlices + totalDiscards = currentSlice
  /\ pc = "feed" => /\ acceptedSlices + totalDiscards + 1 <= currentSlice
                    /\ levelShifts = 0 => acceptedSlices + totalDiscards + 1 = currentSlice
  /\ pc \in Preparing => currentSlice = 0 /\ window.count = 0
  /\ pc \in BeforeFeed /\ currentSlice = 0 => window.count = 0
  /\ pc = "feed" /\ currentSlice = 1 => window.count = 0
  /\ pc = "decide" => currentSlice >= 1
  /\ pc = "decide" /\ currentSlice = 1 => acceptedSlices = 1 /\ consecutiveDiscards = 0

\* A slice adds one to the slices kept, unless it shifts the level and drops the old ones.
LEMMA FeedCounts ==
  ASSUME Inv, NEW t \in WallTimes, FeedSlice(t)
  PROVE  /\ acceptedSlices' \in Nat /\ totalDiscards' \in Nat
         /\ acceptedSlices' + totalDiscards' <= acceptedSlices + totalDiscards + 1
         /\ levelShifts' = 0 =>
               /\ levelShifts = 0
               /\ acceptedSlices' + totalDiscards' = acceptedSlices + totalDiscards + 1
         /\ window.count = 0 =>
               acceptedSlices' = acceptedSlices + 1 /\ consecutiveDiscards' = 0
<1>1. /\ acceptedSlices \in Nat /\ totalDiscards \in Nat /\ consecutiveDiscards \in Nat
      /\ consecutiveDiscards <= totalDiscards
  BY DEF Inv, TypeOK, DiscardsAreAccounted
<1>2. levelShifts \in Nat
  BY StatsAssumption DEF Inv, TypeOK
<1>3. window.count = 0 => ~IsJittered(window, t)
  BY StatsAssumption DEF IsJittered
<1>4. CASE AcceptSlice(t)
  BY <1>1, <1>4 DEF AcceptSlice
<1>5. CASE DiscardSlice(t)
  BY <1>1, <1>3, <1>5 DEF DiscardSlice, Discard
<1>6. CASE ShiftLevel(t)
  BY <1>1, <1>2, <1>3, <1>6 DEF ShiftLevel, ShiftBaseline, Discard
<1> QED
  BY <1>4, <1>5, <1>6 DEF FeedSlice

LEMMA SumsBelow ==
  ASSUME NEW a \in Nat, NEW d \in Nat, NEW a1 \in Nat, NEW d1 \in Nat, NEW c \in Nat,
         a1 + d1 <= a + d + 1, a + d + 1 <= c
  PROVE  a1 + d1 <= c
OBVIOUS

LEMMA InitAccounting == RunnerInit => Accounting
BY DEF RunnerInit, ValidatorInit, Init, EmptyWindow, Accounting, Preparing, BeforeFeed

LEMMA NextAccounting == RInv /\ Accounting /\ [RunnerNext]_rvars => Accounting'
<1> SUFFICES ASSUME RInv, Accounting, [RunnerNext]_rvars PROVE Accounting'
  OBVIOUS
<1> USE DEF Accounting, Preparing, BeforeFeed
<1>1. /\ acceptedSlices \in Nat /\ totalDiscards \in Nat
      /\ pc \in Preparing \union Measuring \union Closing \union {"decide", "done"}
  BY DEF RInv, Inv, TypeOK, Control
<1>2. CASE Startup \/ Warmup \/ TakeConfiguredIterations \/ ColdProbe \/ Probe
             \/ TakeAutoIterations
  BY <1>2 DEF Startup, Warmup, TakeConfiguredIterations, ColdProbe, Probe,
              TakeAutoIterations, validator, vars, counters, baseline
<1>3. CASE Calibrate
  BY <1>3 DEF Calibrate, DeriveKnobs, validator, counters, baseline
<1>4. CASE ExecuteSlice \/ ResetSlice \/ HashSlice
  BY <1>4 DEF ExecuteSlice, ResetSlice, HashSlice, FeedThreadHash, validator, vars, counters,
              baseline
<1>5. CASE Validate
  <2>1. currentSlice' = currentSlice + 1
    BY <1>5 DEF Validate, ValidateSlice, SetReference, MatchReference, Diverge, Finalize
  <2> QED
    BY <1>1, <1>5, <2>1 DEF Validate, vars, counters, baseline
<1>6. CASE FeedStats
  <2> HIDE DEF Accounting, Preparing, BeforeFeed
  <2>1. /\ timing \in WallTimes /\ FeedSlice(timing) /\ Inv
        /\ pc = "feed" /\ pc' = "decide" /\ currentSlice' = currentSlice
    BY <1>6 DEF FeedStats, RInv, Handed, validator
  <2>2. /\ acceptedSlices' \in Nat /\ totalDiscards' \in Nat
        /\ acceptedSlices' + totalDiscards' <= acceptedSlices + totalDiscards + 1
        /\ levelShifts' = 0 =>
              /\ levelShifts = 0
              /\ acceptedSlices' + totalDiscards' = acceptedSlices + totalDiscards + 1
        /\ window.count = 0 =>
              acceptedSlices' = acceptedSlices + 1 /\ consecutiveDiscards' = 0
    BY <2>1, FeedCounts
  <2>3. /\ currentSlice \in Nat /\ acceptedSlices + totalDiscards + 1 <= currentSlice
        /\ levelShifts = 0 => acceptedSlices + totalDiscards + 1 = currentSlice
        /\ currentSlice = 1 => window.count = 0
    BY <2>1 DEF Accounting
  <2>4. currentSlice >= 1 /\ (currentSlice = 1 => acceptedSlices = 0)
    BY <1>1, <2>3
  <2>5. currentSlice' = 1 => acceptedSlices' = 1 /\ consecutiveDiscards' = 0
    BY <1>1, <2>1, <2>2, <2>3, <2>4
  <2>6. /\ acceptedSlices' + totalDiscards' <= currentSlice'
        /\ levelShifts' = 0 => acceptedSlices' + totalDiscards' = currentSlice'
    <3>1. levelShifts' = 0 =>
            /\ acceptedSlices + totalDiscards + 1 = currentSlice
            /\ acceptedSlices' + totalDiscards' = acceptedSlices + totalDiscards + 1
      BY <2>2, <2>3
    <3>2. levelShifts' = 0 => acceptedSlices' + totalDiscards' = currentSlice
      BY <3>1
    <3>3. acceptedSlices' + totalDiscards' <= currentSlice
      BY <1>1, <2>2, <2>3, SumsBelow
    <3> QED
      BY <2>1, <3>2, <3>3
  <2> QED
    BY <2>1, <2>3, <2>4, <2>5, <2>6 DEF Accounting, Preparing, BeforeFeed
<1>7. CASE Decide
  <2>1. UNCHANGED <<counters, baseline>>
    BY <1>7 DEF Decide, ShouldStop, StopConsecutive, StopTotal, StopHardCap, StopConverged,
                Stop, KeepGoing
  <2> QED
    BY <1>7, <2>1 DEF Decide, validator, counters, baseline
<1>8. CASE Teardown \/ AssembleResult \/ RunCorrectnessOnce
  BY <1>8 DEF Teardown, AssembleResult, RunCorrectnessOnce, validator, vars, counters,
              baseline
<1>9. CASE UNCHANGED rvars
  BY <1>9 DEF rvars, validator, vars, counters, baseline
<1> QED
  BY <1>2, <1>3, <1>4, <1>5, <1>6, <1>7, <1>8, <1>9 DEF RunnerNext

LEMMA AlwaysAccounting == RunnerSpec => []Accounting
BY InitAccounting, NextAccounting, AlwaysRInv, PTL DEF RunnerSpec

\* The statistics and the validator keep step in every run.
THEOREM SlicesAccounted == RunnerSpec => []SlicesAreAccounted
<1>1. Accounting => SlicesAreAccounted
  BY DEF Accounting, SlicesAreAccounted
<1> QED
  BY <1>1, AlwaysAccounting, PTL

\* The slice that sets the reference hash is never discarded by the statistics.
THEOREM ReferenceAccepted == RunnerSpec => []ReferenceSliceIsAccepted
<1>1. Accounting => ReferenceSliceIsAccepted
  BY DEF Accounting, ReferenceSliceIsAccepted
<1> QED
  BY <1>1, AlwaysAccounting, PTL

-----------------------------------------------------------------------------
(* RunContract. *)

\* The refinement mapping of Contract, by the names of this module.
Stage ==
  IF fixture = "unstarted" THEN "fresh"
  ELSE IF pc = "done" THEN "reported"
  ELSE IF fixture = "down" THEN "down"
  ELSE IF phase = "calibrating" THEN "live"
  ELSE "measuring"
SlicesLeft == IF phase = "calibrating" THEN 0 ELSE Budget
Verdict == IF pc # "done" THEN "none" ELSE IF result.stats.runFailed THEN "failed" ELSE "passed"

\* Nothing the contract sees changes as long as these do not.
LEMMA SameStage ==
  ASSUME UNCHANGED vars, fixture' = fixture, pc # "done", pc' # "done"
  PROVE  UNCHANGED <<Stage, SlicesLeft, Verdict>>
BY DEF vars, counters, Stage, SlicesLeft, Verdict, Budget

LEMMA ContractSteps ==
  ASSUME RInv, RInv', RunnerNext
  PROVE  \/ Contract!ContractNext
         \/ UNCHANGED <<Stage, SlicesLeft, Verdict>>
<1> USE DEF Stage, SlicesLeft, Verdict
<1>1. /\ Control /\ Control' /\ Handed /\ Inv /\ Inv'
  BY DEF RInv
<1>2. CASE Startup
  BY <1>1, <1>2 DEF Startup, vars, Control, Preparing, Contract!ContractNext, Contract!Start
<1>3. CASE Warmup \/ TakeConfiguredIterations \/ ColdProbe \/ Probe \/ TakeAutoIterations
  <2>1. UNCHANGED vars /\ fixture' = fixture /\ pc # "done" /\ pc' # "done"
    BY <1>3 DEF Warmup, TakeConfiguredIterations, ColdProbe, Probe, TakeAutoIterations,
                RunSlice, fixtureVars
  <2> QED
    BY <2>1, SameStage
<1>4. CASE ExecuteSlice \/ ResetSlice \/ HashSlice \/ Validate
  <2>1. UNCHANGED vars /\ fixture' = fixture /\ pc # "done" /\ pc' # "done"
    BY <1>4 DEF ExecuteSlice, ResetSlice, HashSlice, Validate, fixtureVars
  <2> QED
    BY <2>1, SameStage
<1>5. CASE Calibrate
  <2>1. /\ pc = "calibrate" /\ pc' = "slice" /\ fixture = "live" /\ fixture' = "live"
        /\ phase = "calibrating" /\ phase' = "slicing"
    BY <1>1, <1>5 DEF Calibrate, RunSlice, Control, Preparing, Measuring
  <2>2. acceptedSlices' = 0
    BY <1>1, <1>5, <2>1 DEF Calibrate, DeriveKnobs, counters, Inv, NothingBeforeCalibration
  <2>3. Budget' \in Nat \ {0}
    <3>1. (Inv /\ phase # "calibrating" => Budget \in Nat /\ (acceptedSlices = 0 => Budget > 0))'
      BY BudgetType, PTL
    <3> QED
      BY <1>1, <2>1, <2>2, <3>1
  <2> QED
    BY <2>1, <2>3 DEF Contract!ContractNext, Contract!Calibrated
<1>6. CASE FeedStats
  <2>1. /\ pc = "feed" /\ pc' = "decide" /\ fixture = "live" /\ fixture' = "live"
        /\ phase = "slicing" /\ phase' = "deciding"
    BY <1>1, <1>6 DEF FeedStats, fixtureVars, Control, Measuring
  <2>2. 0 <= Budget' /\ Budget' < Budget
    BY <1>1, <2>1, RunnerStepsStats, SliceUsesBudget
  <2>3. Budget' \in Nat
    <3>1. (Inv /\ phase # "calibrating" => Budget \in Nat)'
      BY BudgetType, PTL
    <3> QED
      BY <1>1, <2>1, <3>1
  <2> QED
    BY <2>1, <2>2, <2>3 DEF Contract!ContractNext, Contract!Slice
<1>7. CASE Decide
  <2>1. /\ pc = "decide" /\ pc' \in {"slice", "teardown"} /\ fixture = "live"
        /\ fixture' = "live" /\ phase = "deciding" /\ phase' # "calibrating"
    BY <1>1, <1>7, CallsMovePhase DEF Decide, fixtureVars, Control
  <2>2. Budget' = Budget
    BY <1>7 DEF Decide, ShouldStop, StopConsecutive, StopTotal, StopHardCap, StopConverged,
                Stop, KeepGoing, counters, Budget
  <2> QED
    BY <2>1, <2>2
<1>8. CASE Teardown
  BY <1>1, <1>8
  DEF Teardown, vars, counters, Budget, Control, Closing, Contract!ContractNext,
      Contract!TearDown
<1>9. CASE AssembleResult
  BY <1>1, <1>9
  DEF AssembleResult, fixtureVars, vars, counters, Budget, Control, Closing,
      Contract!ContractNext, Contract!Report, Contract!Verdicts
<1>10. CASE RunCorrectnessOnce
  BY <1>1, <1>10
  DEF RunCorrectnessOnce, vars, Control, Preparing,
      Contract!ContractNext, Contract!Report, Contract!Verdicts
<1> QED
  BY <1>2, <1>3, <1>4, <1>5, <1>6, <1>7, <1>8, <1>9, <1>10 DEF RunnerNext

\* Every run keeps the contract: its fixture is started once, measured for a number of
\* slices bounded when the measuring begins, torn down once, and only then reported.
THEOREM RunnerKeepsContract == RunnerSpec => ContractKept
<1>1. RunnerInit => Contract!ContractInit
  BY DEF RunnerInit, Init, Contract!ContractInit
<1>2. RInv /\ RInv' /\ [RunnerNext]_rvars => [Contract!ContractNext]_(Contract!contract)
  <2> SUFFICES ASSUME RInv, RInv', [RunnerNext]_rvars
               PROVE  Contract!ContractNext \/ UNCHANGED Contract!contract
    OBVIOUS
  <2>1. CASE RunnerNext
    BY <2>1, ContractSteps DEF Contract!contract, Stage, SlicesLeft, Verdict
  <2>2. CASE UNCHANGED rvars
    BY <2>2 DEF rvars, vars, counters, fixtureVars, report, Budget, Contract!contract
  <2> QED
    BY <2>1, <2>2
<1> QED
  BY <1>1, <1>2, AlwaysRInv, PTL DEF RunnerSpec, ContractKept, Contract!ContractSpec

-----------------------------------------------------------------------------
(* Tracking the distinct hashes in an array of fixed size                  *)
(* (internalTrackUniqueHash of Validator.h), for any hashes and capacity.  *)

Elements(s) == {s[n] : n \in DOMAIN s}

\* Appending adds one element.
LEMMA ElementsOfAppend ==
  ASSUME NEW s \in Seq(Hashes), NEW h \in Hashes
  PROVE  /\ Append(s, h) \in Seq(Hashes)
         /\ Len(Append(s, h)) = Len(s) + 1
         /\ Elements(Append(s, h)) = Elements(s) \union {h}
         /\ \A n \in DOMAIN s : Append(s, h)[n] = s[n]
         /\ Append(s, h)[Len(s) + 1] = h
BY DEF Elements

\* Track keeps the hashes distinct, within the capacity, and drops none while there is room.
LEMMA TrackCounts ==
  ASSUME NEW s \in Seq(Hashes), NEW h \in Hashes,
         IsFiniteSet(Elements(s)), Len(s) = Cardinality(Elements(s)), Len(s) <= MaxUniqueHashes
  PROVE  LET t == Track(s, h)
         IN  /\ t \in Seq(Hashes)
             /\ IsFiniteSet(Elements(t)) /\ Len(t) = Cardinality(Elements(t))
             /\ Len(t) <= MaxUniqueHashes
             /\ Elements(s) \subseteq Elements(t)
             /\ Elements(t) \subseteq Elements(s) \union {h}
             /\ Len(t) < MaxUniqueHashes => Len(s) < MaxUniqueHashes /\ h \in Elements(t)
<1>1. CASE Contains(s, h)
  <2>1. h \in Elements(s)
    BY <1>1 DEF Contains, Elements
  <2>2. Track(s, h) = s
    BY <1>1 DEF Track
  <2> QED
    BY <2>1, <2>2
<1>2. CASE ~Contains(s, h) /\ Len(s) = MaxUniqueHashes
  <2>1. Track(s, h) = s
    BY <1>2 DEF Track
  <2>2. ~(Len(s) < MaxUniqueHashes)
    BY <1>2, ValidatorAssumption
  <2> QED
    BY <2>1, <2>2
<1>3. CASE ~Contains(s, h) /\ Len(s) # MaxUniqueHashes
  <2>1. Track(s, h) = Append(s, h)
    BY <1>3 DEF Track
  <2>2. h \notin Elements(s)
    <3>1. \A i \in 1 .. Len(s) : s[i] # h
      BY <1>3 DEF Contains
    <3>2. DOMAIN s = 1 .. Len(s)
      OBVIOUS
    <3> QED
      BY <3>1, <3>2 DEF Elements
  <2>3. /\ IsFiniteSet(Elements(s) \union {h})
        /\ Cardinality(Elements(s) \union {h}) = Cardinality(Elements(s)) + 1
    BY <2>2, FS_AddElement
  <2>4. Len(s) < MaxUniqueHashes /\ Len(s) + 1 <= MaxUniqueHashes
    BY <1>3, ValidatorAssumption
  <2>5. /\ Append(s, h) \in Seq(Hashes)
        /\ Len(Append(s, h)) = Len(s) + 1
        /\ Elements(Append(s, h)) = Elements(s) \union {h}
    BY ElementsOfAppend
  <2> QED
    BY <2>1, <2>2, <2>3, <2>4, <2>5
<1> QED
  BY <1>1, <1>2, <1>3

-----------------------------------------------------------------------------
(* The determinism verdict of a run.                                       *)

\* What the validator can see of the outputs of the measured slices.
Visible == {AfterReset(o) : o \in outputs}

\* Of the slice that is not validated yet: what its hash will be.
Pending == CASE pc = "reset" -> AfterReset(output) [] pc = "hash" -> output
             [] pc = "validate" -> accumulator [] OTHER -> EmptyHash

\* The fields of a validator that has validated the hashes S and no others.
Fields(reference, has, steady, hashes, S) ==
  /\ S \subseteq Hashes /\ IsFiniteSet(S)
  /\ has <=> S # {}
  /\ has => reference \in S
  /\ steady <=> (\A h \in S : h = reference)
  /\ hashes \in Seq(Hashes)
  /\ Elements(hashes) \subseteq S /\ IsFiniteSet(Elements(hashes))
  /\ Len(hashes) = Cardinality(Elements(hashes)) /\ Len(hashes) <= MaxUniqueHashes
  /\ Len(hashes) < MaxUniqueHashes => Elements(hashes) = S

Validated(S) == Fields(referenceHash, hasReference, deterministic, uniqueHashes, S)

Unvalidated == {"reset", "hash", "validate"}

\* Where the outputs are, and what kinds they are of.
Plain ==
  /\ outputs \subseteq Hashes /\ IsFiniteSet(outputs)
  /\ hasReference \in BOOLEAN /\ deterministic \in BOOLEAN
  /\ iterations \in Nat /\ fastest \in Nat
  /\ pc \in {"startup", "correctness"} => work = 0
  /\ pc \in Preparing => outputs = {}
  /\ pc \in Unvalidated \union {"feed", "decide"} \union Closing => outputs # {}
  /\ config.kind = "Correctness" => pc \in {"startup", "correctness", "done"}
  /\ config.kind = "Performance" => pc # "correctness"
  /\ pc # "validate" => accumulator = EmptyHash
  /\ pc = "reset" => output \in outputs

DInv ==
  /\ Plain
  /\ pc \in Unvalidated => Pending \in Hashes /\ \E S : Visible = S \union {Pending} /\ Validated(S)
  /\ pc \notin Unvalidated /\ ~(pc = "done" /\ config.kind = "Correctness") => Validated(Visible)
  /\ Measured => /\ outputs # {}
                 /\ result.deterministic = deterministic
                 /\ result.uniqueHashCount = Len(uniqueHashes)
                 /\ result.referenceHash = referenceHash

LEMMA ProducesHashes ==
  ASSUME NEW w \in Nat, NEW o \in Produces[Lesser(w, MaxWork)]
  PROVE  o \in Hashes
<1>1. Lesser(w, MaxWork) \in 0 .. MaxWork
  BY RunnerAssumption DEF Lesser
<1> QED
  BY <1>1, RunnerAssumption

LEMMA VisibleFinite ==
  ASSUME Plain
  PROVE  Visible \subseteq Hashes /\ IsFiniteSet(Visible)
<1>1. CASE clearsOutput
  <2>1. Visible \subseteq {EmptyHash}
    BY <1>1 DEF Visible, AfterReset
  <2> QED
    BY <2>1, FS_Singleton, FS_Subset DEF Hashes, EmptyHash
<1>2. CASE ~clearsOutput
  BY <1>2 DEF Visible, AfterReset, Plain
<1> QED
  BY <1>1, <1>2

\* The next list of tracked hashes, when it speaks of the hashes T.
TrackedAs(T) ==
  /\ uniqueHashes' \in Seq(Hashes)
  /\ Elements(uniqueHashes') \subseteq T /\ IsFiniteSet(Elements(uniqueHashes'))
  /\ Len(uniqueHashes') = Cardinality(Elements(uniqueHashes'))
  /\ Len(uniqueHashes') <= MaxUniqueHashes
  /\ Len(uniqueHashes') < MaxUniqueHashes => Elements(uniqueHashes') = T

LEMMA TrackedFields ==
  ASSUME NEW S, Validated(S), NEW h \in Hashes, uniqueHashes' = Track(uniqueHashes, h)
  PROVE  TrackedAs(S \union {h})
<1>1. /\ uniqueHashes \in Seq(Hashes) /\ IsFiniteSet(Elements(uniqueHashes))
      /\ Len(uniqueHashes) = Cardinality(Elements(uniqueHashes))
      /\ Len(uniqueHashes) <= MaxUniqueHashes /\ Elements(uniqueHashes) \subseteq S
      /\ Len(uniqueHashes) < MaxUniqueHashes => Elements(uniqueHashes) = S
  BY DEF Validated, Fields
<1>2. /\ uniqueHashes' \in Seq(Hashes)
      /\ IsFiniteSet(Elements(uniqueHashes'))
      /\ Len(uniqueHashes') = Cardinality(Elements(uniqueHashes'))
      /\ Len(uniqueHashes') <= MaxUniqueHashes
      /\ Elements(uniqueHashes) \subseteq Elements(uniqueHashes')
      /\ Elements(uniqueHashes') \subseteq Elements(uniqueHashes) \union {h}
      /\ Len(uniqueHashes') < MaxUniqueHashes =>
           Len(uniqueHashes) < MaxUniqueHashes /\ h \in Elements(uniqueHashes')
  BY <1>1, TrackCounts
<1> QED
  BY <1>1, <1>2 DEF TrackedAs

\* validateSlice: the fields then speak of one hash more.
LEMMA ValidateAdds ==
  ASSUME NEW S, Validated(S), accumulator \in Hashes, ValidateSlice,
         hasReference \in BOOLEAN, deterministic \in BOOLEAN
  PROVE  /\ Fields(referenceHash', hasReference', deterministic', uniqueHashes',
                   S \union {accumulator})
         /\ hasReference' \in BOOLEAN /\ deterministic' \in BOOLEAN /\ accumulator' = EmptyHash
<1> DEFINE h == accumulator
           T == S \union {h}
<1>1. /\ S \subseteq Hashes /\ IsFiniteSet(S) /\ (hasReference <=> S # {})
      /\ (hasReference => referenceHash \in S)
      /\ (deterministic <=> \A g \in S : g = referenceHash)
  BY DEF Validated, Fields
<1>2. T \subseteq Hashes /\ IsFiniteSet(T) /\ T # {}
  BY <1>1, FS_AddElement
<1>3. CASE SetReference
  <2>1. /\ hasReference' = TRUE /\ referenceHash' = h /\ deterministic' = deterministic
        /\ accumulator' = EmptyHash /\ uniqueHashes' = Track(uniqueHashes, h) /\ ~hasReference
    BY <1>3 DEF SetReference, Finalize
  <2>2. S = {} /\ deterministic /\ \A g \in T : g = referenceHash'
    BY <1>1, <2>1
  <2>3. TrackedAs(T)
    BY <2>1, TrackedFields
  <2> QED
    BY <1>2, <2>1, <2>2, <2>3 DEF TrackedAs, Fields
<1>4. CASE MatchReference
  <2>1. /\ hasReference /\ hasReference' = hasReference /\ referenceHash' = referenceHash
        /\ deterministic' = deterministic /\ accumulator' = EmptyHash
        /\ uniqueHashes' = uniqueHashes /\ h = referenceHash
    BY <1>4 DEF MatchReference, Finalize
  <2>2. T = S
    BY <1>1, <2>1
  <2> QED
    BY <2>1, <2>2 DEF Validated
<1>5. CASE Diverge
  <2>1. /\ hasReference /\ hasReference' = hasReference /\ referenceHash' = referenceHash
        /\ deterministic' = FALSE /\ accumulator' = EmptyHash
        /\ uniqueHashes' = Track(uniqueHashes, h) /\ h # referenceHash
    BY <1>5 DEF Diverge, Finalize
  <2>2. referenceHash \in T /\ ~(\A g \in T : g = referenceHash)
    BY <1>1, <2>1
  <2>3. TrackedAs(T)
    BY <2>1, TrackedFields
  <2> QED
    BY <1>2, <2>1, <2>2, <2>3 DEF TrackedAs, Fields
<1> QED
  BY <1>3, <1>4, <1>5 DEF ValidateSlice

\* Steps that neither measure nor judge.
LEMMA AsideKeepsVerdict ==
  ASSUME RInv, DInv, UNCHANGED <<validator, outputs, clearsOutput, config>>,
         pc \notin Unvalidated, pc' \notin Unvalidated \union {"done"}, pc # "done", Plain'
  PROVE  DInv'
<1>1. Visible' = Visible
  BY DEF Visible, AfterReset
<1>2. Validated(Visible)
  BY DEF DInv
<1>3. Validated(Visible)'
  BY <1>1, <1>2 DEF Validated, validator
<1> QED
  BY <1>3 DEF DInv, Measured

LEMMA DInit == RunnerInit => DInv
<1> SUFFICES ASSUME RunnerInit PROVE DInv
  OBVIOUS
<1>1. /\ outputs = {} /\ pc = "startup" /\ uniqueHashes = <<>> /\ hasReference = FALSE
      /\ deterministic = TRUE /\ accumulator = EmptyHash /\ work = 0 /\ iterations = 0
      /\ fastest = 0
  BY DEF RunnerInit, ValidatorInit
<1>2. Visible = {}
  BY <1>1 DEF Visible
<1>3. <<>> \in Seq(Hashes) /\ Elements(<<>>) = {} /\ Len(<<>>) = 0
  BY DEF Elements
<1>4. Validated(Visible)
  BY <1>1, <1>2, <1>3, FS_EmptySet, ValidatorAssumption DEF Validated, Fields
<1>5. Plain
  BY <1>1, FS_EmptySet DEF Plain, Unvalidated, Closing
<1> QED
  BY <1>1, <1>4, <1>5 DEF DInv, Unvalidated, Measured

\* The steps before the measuring.
LEMMA PreparingKeepsVerdict ==
  ASSUME RInv, DInv, \/ Startup \/ Warmup \/ TakeConfiguredIterations \/ ColdProbe \/ Probe
                     \/ TakeAutoIterations \/ Calibrate
  PROVE  DInv'
<1>1. /\ config \in Configs /\ config.kind \in {"Performance", "Correctness"}
      /\ config.iterations \in Nat /\ Plain
      /\ pc \in Preparing \union Measuring \union Closing \union {"decide", "done"}
  BY RunnerAssumption DEF RInv, Control, Handed, ConfigSpace, DInv
<1>2. /\ UNCHANGED <<validator, outputs, clearsOutput, config>>
      /\ pc \in Preparing \ {"correctness"} /\ pc' \in Preparing \union {"slice"}
      /\ pc' = "correctness" => pc = "startup" /\ config.kind = "Correctness" /\ work' = work
      /\ pc' = "startup" => FALSE
      /\ config.kind = "Correctness" => pc' \in {"startup", "correctness", "done"}
  BY <1>1 DEF Startup, Warmup, TakeConfiguredIterations, ColdProbe, Probe, TakeAutoIterations,
              Calibrate, plan, report, Preparing, Plain, DInv
<1>3. iterations' \in Nat /\ fastest' \in Nat
  <2>1. CASE Startup \/ Warmup \/ TakeConfiguredIterations \/ ColdProbe \/ Calibrate
    BY <1>1, <2>1 DEF Startup, Warmup, TakeConfiguredIterations, ColdProbe, Calibrate, plan,
                      progress, Plain
  <2>2. CASE Probe
    BY <1>1, <2>2, RunnerAssumption DEF Probe, FasterOf, Plain
  <2>3. CASE TakeAutoIterations
    BY <1>1, <2>3, RunnerAssumption DEF TakeAutoIterations, AutoIterations, Plain
  <2> QED
    BY <2>1, <2>2, <2>3
<1>4. Plain'
  BY <1>1, <1>2, <1>3 DEF Plain, Preparing, Unvalidated, Closing, validator
<1>5. pc \notin Unvalidated \union {"done"} /\ pc' \notin Unvalidated \union {"done"}
  BY <1>2 DEF Preparing, Unvalidated
<1> QED
  BY <1>2, <1>4, <1>5, AsideKeepsVerdict

\* The steps that neither measure nor judge, once the measuring has begun.
LEMMA LoopKeepsVerdict ==
  ASSUME RInv, DInv, FeedStats \/ Decide \/ Teardown
  PROVE  DInv'
<1>1. /\ UNCHANGED <<validator, outputs, clearsOutput, config, iterations, fastest>>
      /\ pc \in {"feed", "decide", "teardown"} /\ pc' \in {"decide", "slice", "teardown", "assemble"}
  BY DEF FeedStats, Decide, Teardown, plan, report, progress
<1>2. Plain'
  BY <1>1 DEF DInv, Plain, Preparing, Unvalidated, Closing, validator
<1> QED
  BY <1>1, <1>2, AsideKeepsVerdict DEF Unvalidated

LEMMA ExecuteKeepsVerdict ==
  ASSUME RInv, DInv, ExecuteSlice
  PROVE  DInv'
<1>1. /\ pc = "slice" /\ pc' = "reset" /\ outputs' = outputs \union {output'}
      /\ UNCHANGED <<validator, clearsOutput, config, iterations, fastest>>
      /\ Plain /\ work = 0 /\ Validated(Visible)
  BY DEF ExecuteSlice, plan, DInv, RInv, Handed, Unvalidated
<1>2. output' \in Hashes
  BY <1>1, ProducesHashes DEF ExecuteSlice, Worked, Plain
<1>3. outputs' \subseteq Hashes /\ IsFiniteSet(outputs')
  BY <1>1, <1>2, FS_AddElement DEF Plain
<1>4. Plain'
  BY <1>1, <1>3 DEF Plain, Preparing, Unvalidated, Closing, validator
<1>5. Visible' = Visible \union {Pending'} /\ Pending' \in Hashes
  BY <1>1, <1>2 DEF Visible, Pending, AfterReset, Hashes, EmptyHash
<1>6. Validated(Visible) /\ \A S : Validated(S)' <=> Validated(S)
  BY <1>1 DEF Validated, validator
<1>7. \E S : Visible' = S \union {Pending'} /\ Validated(S)'
  BY <1>5, <1>6
<1> QED
  BY <1>1, <1>4, <1>5, <1>7 DEF DInv, Unvalidated, Measured

LEMMA HandOnKeepsVerdict ==
  ASSUME RInv, DInv, ResetSlice \/ HashSlice
  PROVE  DInv'
<1>1. /\ pc \in {"reset", "hash"} /\ pc' \in {"hash", "validate"}
      /\ UNCHANGED <<referenceHash, hasReference, deterministic, uniqueHashes, outputs,
                     clearsOutput, config, iterations, fastest>>
      /\ Plain /\ Pending \in Hashes
  BY DEF ResetSlice, HashSlice, FeedThreadHash, validator, plan, report, progress, DInv, Unvalidated
<1>2. Pending' = Pending /\ (pc' # "validate" => accumulator' = EmptyHash)
  BY <1>1 DEF ResetSlice, HashSlice, FeedThreadHash, validator, plan, fixtureVars, Pending,
              AfterReset, SymDiff, EmptyHash, Plain, Hashes
<1>3. Visible' = Visible /\ \A S : Validated(S)' <=> Validated(S)
  BY <1>1 DEF Visible, AfterReset, Validated
<1>4. Plain'
  BY <1>1, <1>2 DEF Plain, Preparing, Unvalidated, Closing
<1>5. \E S : Visible' = S \union {Pending'} /\ Validated(S)'
  BY <1>1, <1>2, <1>3 DEF DInv, Unvalidated
<1> QED
  BY <1>1, <1>2, <1>4, <1>5 DEF DInv, Unvalidated, Measured

LEMMA ValidateKeepsVerdict ==
  ASSUME RInv, DInv, Validate
  PROVE  DInv'
<1>1. /\ pc = "validate" /\ pc' = "feed" /\ ValidateSlice
      /\ UNCHANGED <<outputs, clearsOutput, config, iterations, fastest>>
      /\ Plain /\ accumulator \in Hashes
  BY DEF Validate, plan, report, progress, DInv, Unvalidated, Pending
<1>2. PICK S : Visible = S \union {accumulator} /\ Validated(S)
  BY <1>1 DEF DInv, Unvalidated, Pending
<1>3. /\ Fields(referenceHash', hasReference', deterministic', uniqueHashes', Visible)
      /\ hasReference' \in BOOLEAN /\ deterministic' \in BOOLEAN /\ accumulator' = EmptyHash
  BY <1>1, <1>2, ValidateAdds DEF Plain
<1>4. Visible' = Visible
  BY <1>1 DEF Visible, AfterReset
<1>5. Validated(Visible)'
  BY <1>3, <1>4 DEF Validated
<1>6. Plain'
  BY <1>1, <1>3 DEF Plain, Preparing, Unvalidated, Closing
<1> QED
  BY <1>1, <1>5, <1>6 DEF DInv, Unvalidated, Measured

LEMMA ReportKeepsVerdict ==
  ASSUME RInv, DInv, AssembleResult \/ RunCorrectnessOnce
  PROVE  DInv'
<1>1. CASE AssembleResult
  <2>1. /\ pc = "assemble" /\ pc' = "done" /\ Plain /\ Validated(Visible) /\ outputs # {}
        /\ UNCHANGED <<validator, outputs, clearsOutput, config, iterations, fastest>>
        /\ result'.deterministic = deterministic /\ result'.referenceHash = referenceHash
        /\ result'.uniqueHashCount = Len(uniqueHashes)
    BY <1>1 DEF AssembleResult, plan, progress, DInv, Plain, Unvalidated, Closing, uniqueHashCount
  <2>2. Validated(Visible)'
    BY <2>1 DEF Validated, validator, Visible, AfterReset
  <2>3. Plain'
    BY <2>1 DEF Plain, Preparing, Unvalidated, Closing, validator
  <2> QED
    BY <2>1, <2>2, <2>3 DEF DInv, Unvalidated, Measured, validator
<1>2. CASE RunCorrectnessOnce
  <2>1. /\ pc = "correctness" /\ pc' = "done" /\ Plain /\ config.kind = "Correctness" /\ work = 0
        /\ UNCHANGED <<validator, clearsOutput, config, iterations, fastest>>
    BY <1>2, RunnerAssumption
    DEF RunCorrectnessOnce, plan, progress, DInv, Plain, RInv, Handed, ConfigSpace
  <2>2. PICK o \in Produces[Worked(1)] : outputs' = outputs \union {o}
    BY <1>2 DEF RunCorrectnessOnce
  <2>3. outputs' \subseteq Hashes /\ IsFiniteSet(outputs')
    BY <2>1, <2>2, ProducesHashes, FS_AddElement DEF Worked, Plain
  <2>4. Plain'
    BY <2>1, <2>3 DEF Plain, Preparing, Unvalidated, Closing, validator
  <2> QED
    BY <2>1, <2>4 DEF DInv, Unvalidated, Measured
<1> QED
  BY <1>1, <1>2

LEMMA DNext == RInv /\ DInv /\ [RunnerNext]_rvars => DInv'
<1> SUFFICES ASSUME RInv, DInv, [RunnerNext]_rvars PROVE DInv'
  OBVIOUS
<1>1. CASE RunnerNext
  BY <1>1, PreparingKeepsVerdict, LoopKeepsVerdict, ExecuteKeepsVerdict, HandOnKeepsVerdict,
     ValidateKeepsVerdict, ReportKeepsVerdict DEF RunnerNext
<1>2. CASE UNCHANGED rvars
  <2>1. /\ UNCHANGED <<pc, validator, outputs, output, result, work, config, clearsOutput,
                       iterations, fastest>>
    BY <1>2 DEF rvars, fixtureVars, plan, progress, report
  <2>2. Plain'
    BY <2>1 DEF DInv, Plain, Preparing, Unvalidated, Closing, validator
  <2>3. Visible' = Visible /\ Pending' = Pending
    BY <2>1 DEF Visible, AfterReset, Pending, validator
  <2>4. ASSUME NEW S PROVE Validated(S)' <=> Validated(S)
    BY <2>1 DEF Validated, validator
  <2>5. Validated(Visible)' <=> Validated(Visible)
    BY <2>1, <2>3 DEF Validated, validator
  <2>6. pc' \in Unvalidated => Pending' \in Hashes
                                /\ \E S : Visible' = S \union {Pending'} /\ Validated(S)'
    BY <2>1, <2>3, <2>4 DEF DInv
  <2>7. pc' \notin Unvalidated /\ ~(pc' = "done" /\ config'.kind = "Correctness")
           => Validated(Visible)'
    BY <2>1, <2>5 DEF DInv
  <2>8. Measured' => /\ outputs' # {}
                     /\ result'.deterministic = deterministic'
                     /\ result'.uniqueHashCount = Len(uniqueHashes')
                     /\ result'.referenceHash = referenceHash'
    BY <2>1 DEF DInv, Measured, validator
  <2> QED
    BY <2>2, <2>6, <2>7, <2>8 DEF DInv
<1> QED
  BY <1>1, <1>2

LEMMA TwoOutputs ==
  ASSUME NEW S, IsFiniteSet(S)
  PROVE  Cardinality(S) > 1 <=> \E a, b \in S : a # b
<1>1. ASSUME NEW a \in S, NEW b \in S, a # b PROVE Cardinality(S) > 1
  <2>1. /\ IsFiniteSet({a}) /\ Cardinality({a} \union {b}) = 2
    <3>1. IsFiniteSet({a}) /\ Cardinality({a}) = 1
      BY FS_Singleton
    <3>2. b \notin {a}
      BY <1>1
    <3>3. Cardinality({a} \union {b}) = Cardinality({a}) + 1
      BY <3>1, <3>2, FS_AddElement
    <3> QED
      BY <3>1, <3>3
  <2>2. Cardinality({a} \union {b}) <= Cardinality(S) /\ Cardinality(S) \in Nat
    BY FS_Subset, FS_CardinalityType
  <2> QED
    BY <2>1, <2>2
<1>2. ASSUME \A a, b \in S : a = b PROVE ~(Cardinality(S) > 1)
  <2>1. CASE S = {}
    BY <2>1, FS_EmptySet
  <2>2. CASE S # {}
    <3>1. PICK a \in S : S = {a}
      BY <1>2, <2>2
    <3> QED
      BY <3>1, FS_Singleton
  <2> QED
    BY <2>1, <2>2
<1> QED
  BY <1>1, <1>2

LEMMA AlwaysDInv == RunnerSpec => []DInv
BY DInit, DNext, AlwaysRInv, PTL DEF RunnerSpec

\* A fixture is only called nondeterministic if two of its measured slices differed
\* (SequentialRunner::run, DeterminismValidator::validateSlice).
THEOREM NeverFalseAlarm == RunnerSpec => []NoFalseAlarm
<1>1. DInv => NoFalseAlarm
  <2> SUFFICES ASSUME DInv, Measured, ~result.deterministic PROVE Cardinality(outputs) > 1
    BY DEF NoFalseAlarm
  <2>1. Plain /\ Validated(Visible) /\ ~deterministic
    BY DEF DInv, Measured, Unvalidated
  <2>2. \E a, b \in Visible : a # b
    BY <2>1 DEF Validated, Fields
  <2>3. \E a, b \in outputs : a # b
    BY <2>2 DEF Visible
  <2> QED
    BY <2>1, <2>3, TwoOutputs DEF Plain
<1> QED
  BY <1>1, AlwaysDInv, PTL

\* If reset leaves the output alone, every difference is reported and counted.
THEOREM RetainedIsReported == RunnerSpec => []RetainedDivergenceIsReported
<1>1. DInv => RetainedDivergenceIsReported
  <2> SUFFICES ASSUME DInv, Measured, ~clearsOutput
               PROVE  /\ Cardinality(outputs) > 1 => ~result.deterministic
                      /\ result.uniqueHashCount = Lesser(Cardinality(outputs), MaxUniqueHashes)
                      /\ result.referenceHash \in outputs
    BY DEF RetainedDivergenceIsReported
  <2>1. /\ Plain /\ Validated(Visible) /\ outputs # {} /\ result.deterministic = deterministic
        /\ result.uniqueHashCount = Len(uniqueHashes) /\ result.referenceHash = referenceHash
    BY DEF DInv, Measured, Unvalidated
  <2>2. Visible = outputs
    BY DEF Visible, AfterReset
  <2>3. /\ referenceHash \in outputs /\ (deterministic <=> \A h \in outputs : h = referenceHash)
    BY <2>1, <2>2 DEF Validated, Fields
  <2>4. Cardinality(outputs) > 1 => ~deterministic
    BY <2>1, <2>3, TwoOutputs DEF Plain
  <2>5. Len(uniqueHashes) = Lesser(Cardinality(outputs), MaxUniqueHashes)
    <3>1. /\ Elements(uniqueHashes) \subseteq outputs /\ IsFiniteSet(outputs)
          /\ Len(uniqueHashes) = Cardinality(Elements(uniqueHashes))
          /\ Len(uniqueHashes) <= MaxUniqueHashes
          /\ Len(uniqueHashes) < MaxUniqueHashes => Elements(uniqueHashes) = outputs
      BY <2>1, <2>2 DEF Validated, Fields, Plain
    <3>2. /\ Cardinality(Elements(uniqueHashes)) <= Cardinality(outputs)
          /\ Cardinality(outputs) \in Nat /\ Len(uniqueHashes) \in Nat
      <4>1. uniqueHashes \in Seq(Hashes)
        BY <2>1 DEF Validated, Fields
      <4> QED
        BY <3>1, <4>1, FS_Subset, FS_CardinalityType
    <3> QED
      BY <3>1, <3>2, ValidatorAssumption DEF Lesser
  <2> QED
    BY <2>1, <2>3, <2>4, <2>5
<1> QED
  BY <1>1, AlwaysDInv, PTL

-----------------------------------------------------------------------------
(* How many executes make a slice.                                         *)

LEMMA Quotient ==
  ASSUME NEW a \in Nat, NEW b \in Nat \ {0}
  PROVE  a \div b \in Nat /\ (a \div b) * b <= a /\ a < (a \div b + 1) * b
OBVIOUS

LEMMA LessFactor ==
  ASSUME NEW p \in Nat, NEW q \in Nat, NEW b \in Nat, p * b < q * b
  PROVE  p < q
<1>1. ASSUME q <= p PROVE FALSE
  <2>1. PICK d \in Nat : p = q + d
    <3>1. p - q \in Nat /\ p = q + (p - q)
      BY <1>1
    <3> QED
      BY <3>1
  <2>2. p * b = q * b + d * b /\ d * b \in Nat /\ q * b \in Nat
    BY <2>1
  <2>3. p * b \in Nat /\ p * b >= q * b
    BY <2>2
  <2> QED
    BY <2>2, <2>3
<1> QED
  BY <1>1

LEMMA ProductType ==
  ASSUME NEW p \in Nat, NEW q \in Nat
  PROVE  p * q \in Nat
OBVIOUS

\* What outlasts the target at one speed does so at a slower one.
LEMMA SlowerOutlasts ==
  ASSUME NEW n \in Nat, NEW t \in Nat, NEW u \in Nat, t <= u, Outlasts(n, t)
  PROVE  Outlasts(n, u)
<1>1. TargetSlice \in Nat
  BY RunnerAssumption
<1>2. CASE n * t > TargetSlice
  <2>1. PICK d \in Nat : u = t + d
    <3>1. u - t \in Nat /\ u = t + (u - t)
      OBVIOUS
    <3> QED
      BY <3>1
  <2>2. n * u = n * t + n * d
    BY <2>1
  <2>3. n * t \in Nat /\ n * d \in Nat
    BY <2>1, ProductType
  <2>4. n * u >= n * t /\ n * u \in Nat
    BY <2>2, <2>3
  <2> QED
    BY <1>1, <1>2, <2>3, <2>4 DEF Outlasts
<1>3. CASE n = 1 /\ t = TargetSlice
  <2>1. n * u = u
    BY <1>3
  <2> QED
    BY <1>1, <1>3, <2>1 DEF Outlasts
<1> QED
  BY <1>2, <1>3 DEF Outlasts

\* The count taken from one speed: it outlasts the target there unless it is the ceiling, and
\* no smaller one does.
LEMMA AutoIterationsFit ==
  ASSUME NEW fast \in Nat \ {0}, NEW n, n = AutoIterations(fast)
  PROVE  /\ n \in 1 .. MaxAutoIterations
         /\ Outlasts(n, fast) \/ n = MaxAutoIterations
         /\ \A m \in 1 .. MaxAutoIterations : Outlasts(m, fast) => n <= m
<1> DEFINE q == TargetSlice \div fast
<1>1. TargetSlice \in Nat \ {0} /\ MaxAutoIterations \in Nat \ {0}
  BY RunnerAssumption
<1>2. q \in Nat /\ q * fast <= TargetSlice /\ TargetSlice < (q + 1) * fast
  BY <1>1, Quotient
<1>3. n = IF fast = 0 \/ TargetSlice <= fast THEN 1
          ELSE IF TargetSlice >= MaxAutoIterations * fast THEN MaxAutoIterations ELSE q + 1
  BY DEF AutoIterations
<1> HIDE DEF q
<1>4. CASE TargetSlice <= fast
  <2>1. n = 1 /\ n * fast = fast
    BY <1>3, <1>4
  <2> QED
    BY <1>1, <1>4, <2>1 DEF Outlasts
<1>5. CASE ~(TargetSlice <= fast) /\ TargetSlice >= MaxAutoIterations * fast
  <2>1. n = MaxAutoIterations
    BY <1>3, <1>5
  <2>2. ASSUME NEW m \in 1 .. MaxAutoIterations, Outlasts(m, fast) PROVE FALSE
    <3>1. m \in Nat /\ m * fast \in Nat /\ MaxAutoIterations * fast \in Nat
      BY <1>1, ProductType
    <3>2. m * fast > TargetSlice
      BY <1>1, <1>5, <2>2 DEF Outlasts
    <3>3. MaxAutoIterations * fast < m * fast
      BY <1>1, <1>5, <3>1, <3>2
    <3>4. MaxAutoIterations < m
      BY <1>1, <3>1, <3>3, LessFactor
    <3> QED
      BY <1>1, <3>1, <3>4
  <2> QED
    BY <1>1, <2>1, <2>2
<1>6. CASE ~(TargetSlice <= fast) /\ ~(TargetSlice >= MaxAutoIterations * fast)
  <2>1. n = q + 1
    BY <1>3, <1>6
  <2>2. MaxAutoIterations * fast \in Nat /\ q * fast \in Nat
    BY <1>1, <1>2, ProductType
  <2>3. q * fast < MaxAutoIterations * fast
    BY <1>1, <1>2, <1>6, <2>2
  <2>4. q < MaxAutoIterations
    BY <1>1, <1>2, <2>3, LessFactor
  <2>5. n \in 1 .. MaxAutoIterations
    BY <1>1, <1>2, <2>1, <2>4
  <2>6. Outlasts(n, fast)
    <3>1. (q + 1) * fast \in Nat
      BY <1>2, ProductType
    <3> QED
      BY <1>1, <1>2, <2>1, <3>1 DEF Outlasts
  <2>7. ASSUME NEW m \in 1 .. MaxAutoIterations, Outlasts(m, fast) PROVE n <= m
    <3>1. m \in Nat /\ m * fast \in Nat
      BY <1>1, ProductType
    <3>2. m * fast > TargetSlice
      BY <1>1, <1>6, <2>7 DEF Outlasts
    <3>3. q * fast < m * fast
      BY <1>1, <1>2, <2>2, <3>1, <3>2
    <3>4. q < m
      BY <1>2, <3>1, <3>3, LessFactor
    <3> QED
      BY <1>2, <2>1, <3>1, <3>4
  <2> QED
    BY <2>5, <2>6, <2>7
<1> QED
  BY <1>4, <1>5, <1>6

\* Until the count is taken, the runner holds the fastest of the probes run so far.
ProbesHeld ==
  /\ fastest \in Nat /\ probed \subseteq Nat
  /\ pc \in {"startup", "warmup"} => probed = {}
  /\ pc = "probe" =>
       /\ todo \in 0 .. CalibrationProbes
       /\ todo = CalibrationProbes => probed = {}
       /\ todo < CalibrationProbes => fastest \in probed /\ \A t \in probed : fastest <= t

LEMMA ProbeHolds == ASSUME ProbesHeld, Probe PROVE ProbesHeld'
<1>1. PICK t \in ProbeTimes : fastest' = FasterOf(fastest, t) /\ probed' = probed \union {t}
  BY DEF Probe
<1>2. /\ t \in Nat /\ CalibrationProbes \in Nat \ {0} /\ pc = "probe" /\ pc' = "probe"
      /\ todo \in 1 .. CalibrationProbes /\ todo' = todo - 1
      /\ fastest \in Nat /\ probed \subseteq Nat
  BY RunnerAssumption DEF Probe, ProbesHeld
<1>3. todo' \in 0 .. CalibrationProbes /\ todo' < CalibrationProbes
  BY <1>2
<1>4. fastest' \in probed' /\ fastest' \in Nat /\ \A u \in probed' : fastest' <= u
  <2>1. CASE todo = CalibrationProbes
    BY <1>1, <1>2, <2>1 DEF ProbesHeld, FasterOf
  <2>2. CASE todo < CalibrationProbes
    <3>1. fastest \in probed /\ \A u \in probed : fastest <= u
      BY <1>2, <2>2 DEF ProbesHeld
    <3>2. fastest' = IF t < fastest THEN t ELSE fastest
      BY <1>1, <1>2, <2>2 DEF FasterOf
    <3> QED
      BY <1>1, <1>2, <3>1, <3>2
  <2> QED
    BY <1>2, <2>1, <2>2
<1> QED
  BY <1>1, <1>2, <1>3, <1>4 DEF ProbesHeld

LEMMA NextProbesHeld == ProbesHeld /\ [RunnerNext]_rvars => ProbesHeld'
<1> SUFFICES ASSUME ProbesHeld, [RunnerNext]_rvars PROVE ProbesHeld'
  OBVIOUS
<1>1. CASE Probe
  BY <1>1, ProbeHolds
<1>2. CASE ColdProbe
  BY <1>2, RunnerAssumption DEF ColdProbe, plan, ProbesHeld
<1>3. CASE TakeAutoIterations
  BY <1>3 DEF TakeAutoIterations, ProbesHeld
<1>4. CASE Startup \/ Warmup \/ TakeConfiguredIterations
  BY <1>4 DEF Startup, Warmup, TakeConfiguredIterations, plan, progress, ProbesHeld
<1>5. CASE \/ Calibrate \/ ExecuteSlice \/ ResetSlice \/ HashSlice \/ Validate \/ FeedStats
           \/ Decide \/ Teardown \/ AssembleResult \/ RunCorrectnessOnce
  BY <1>5 DEF Calibrate, ExecuteSlice, ResetSlice, HashSlice, Validate, FeedStats, Decide,
              Teardown, AssembleResult, RunCorrectnessOnce, plan, progress, ProbesHeld
<1>6. CASE UNCHANGED rvars
  BY <1>6 DEF rvars, plan, progress, ProbesHeld
<1> QED
  BY <1>1, <1>2, <1>3, <1>4, <1>5, <1>6 DEF RunnerNext

\* Only the end of the probes leads from them to the calibration slice.
LEMMA ProbesEnd ==
  ASSUME RunnerNext, pc = "probe", pc' = "calibrate"
  PROVE  todo = 0 /\ iterations' = AutoIterations(fastest)
BY DEF RunnerNext, Startup, Warmup, TakeConfiguredIterations, ColdProbe, Probe, TakeAutoIterations,
       Calibrate, ExecuteSlice, ResetSlice, HashSlice, Validate, FeedStats, Decide, Teardown,
       AssembleResult, RunCorrectnessOnce

\* With any target, ceiling, number of probes and probe times, the count is the smallest whose
\* slice outlasts the target at the speed of every probe, the ceiling when none does, and one
\* when a probe took no time (internalResolveIterationsPerSlice of SequentialRunner.h).
THEOREM SlicesAreSized == RunnerSpec => SlicesReachTarget
<1>1. RunnerInit => ProbesHeld
  BY DEF RunnerInit, ProbesHeld
<1>2. RunnerSpec => []ProbesHeld
  BY <1>1, NextProbesHeld, PTL DEF RunnerSpec
<1> DEFINE Outlasting == {n \in 1 .. MaxAutoIterations : \A t \in probed : Outlasts(n, t)}
           Sized == pc = "probe" /\ pc' = "calibrate" =>
                      IF 0 \in probed THEN iterations' = 1
                      ELSE IF Outlasting = {} THEN iterations' = MaxAutoIterations
                      ELSE iterations' \in Outlasting /\ \A n \in Outlasting : iterations' <= n
<1>3. ProbesHeld /\ [RunnerNext]_rvars => [Sized]_rvars
  <2> SUFFICES ASSUME ProbesHeld, RunnerNext, pc = "probe", pc' = "calibrate" PROVE Sized
    OBVIOUS
  <2> DEFINE n == AutoIterations(fastest)
  <2>1. /\ iterations' = n /\ fastest \in probed /\ fastest \in Nat /\ probed \subseteq Nat
        /\ \A t \in probed : fastest <= t
    BY ProbesEnd, RunnerAssumption DEF ProbesHeld
  <2>2. CASE 0 \in probed
    <3>1. fastest = 0
      BY <2>1, <2>2
    <3> QED
      BY <2>1, <2>2, <3>1 DEF AutoIterations
  <2>3. CASE 0 \notin probed
    <3>1. fastest \in Nat \ {0}
      BY <2>1, <2>3
    <3>2. /\ n \in 1 .. MaxAutoIterations
          /\ Outlasts(n, fastest) \/ n = MaxAutoIterations
          /\ \A m \in 1 .. MaxAutoIterations : Outlasts(m, fastest) => n <= m
      BY <3>1, AutoIterationsFit
    <3>3. MaxAutoIterations \in Nat /\ n \in Nat
      BY <3>2, RunnerAssumption
    <3> HIDE DEF n
    <3>4. Outlasts(n, fastest) => n \in Outlasting
      BY <2>1, <3>2, <3>3, SlowerOutlasts
    <3>5. \A m \in Outlasting : m \in 1 .. MaxAutoIterations /\ n <= m
      BY <2>1, <3>2
    <3>6. CASE Outlasting = {}
      BY <2>1, <2>3, <3>2, <3>4, <3>6
    <3>7. CASE Outlasting # {}
      <4>1. n \in Outlasting
        BY <3>2, <3>3, <3>4, <3>5, <3>7
      <4> QED
        BY <2>1, <2>3, <3>5, <4>1
    <3> QED
      BY <3>6, <3>7
  <2> QED
    BY <2>2, <2>3
<1> QED
  BY <1>2, <1>3, PTL DEF RunnerSpec, SlicesReachTarget
=============================================================================
