-------------------------- MODULE SequentialRunner --------------------------
(***************************************************************************)
(* One benchmark run: SequentialRunner::run                                *)
(* (src/src/Core/src/Public/SequentialRunner.h), with the statistics and   *)
(* the determinism validator it owns and the fixture it drives.            *)
(*                                                                         *)
(* A run is one thread.  pc is the call that thread makes next; the calls  *)
(* on the two owned objects are the actions of StatsAccumulator and        *)
(* DeterminismValidator, conjoined with what the runner does around them.  *)
(* The fixture is user code behind Fixture.h: it does work, leaves an      *)
(* output, and is expected to undo the work in resetImpl.  What it does    *)
(* to its output there is up to it.                                        *)
(***************************************************************************)
EXTENDS StatsAccumulator, DeterminismValidator

CONSTANTS
  Configs,           \* the Configs a test may carry
  CalibrationProbes, \* CALIBRATION_PROBES
  ProbeTimes,        \* the wall times, in ticks, one probe may take; 0 is below the clock
  TargetSlice,       \* TARGET_SLICE_SECONDS, in ticks
  MaxAutoIterations, \* MAX_AUTO_ITERATIONS
  MaxWork,           \* bound: executes since the last reset the fixture tells apart
  Produces           \* the outputs of the n-th execute since the last reset

ConfigSpace ==
  [kind : {"Performance", "Correctness"}, warmupCount : Nat, iterations : Nat,
   knobs : ConfigKnobs]

ASSUME RunnerAssumption ==
  /\ Configs \subseteq ConfigSpace
  /\ CalibrationProbes \in Nat \ {0} /\ ProbeTimes \subseteq Nat
  /\ TargetSlice \in Nat \ {0} /\ MaxAutoIterations \in Nat \ {0}
  /\ MaxWork \in Nat \ {0}
  /\ Produces \in [0 .. MaxWork -> SUBSET Hashes \ {{}}]

VARIABLES
  pc,             \* the runner's next call
  config,         \* ro_Config
  clearsOutput,   \* whether this fixture's resetImpl wipes its output as well
  fixture,        \* "unstarted", "live" or "down"
  work,           \* executes since startup or the last reset, up to MaxWork
  output,         \* the hash of the fixture's output state
  todo,           \* warm-up executes, then calibration probes, still to run
  fastest,        \* the fastest probe so far, 0 before the first
  iterations,     \* iterationsPerSlice
  probed,         \* history: the times of the probes, until the count is taken from them
  timing,         \* cpuWallTime of the slice in progress
  result,         \* the BenchmarkResult, "none" before run() returns
  outputs         \* history: the outputs the measured slices produced

fixtureVars == <<fixture, work, output>>
plan        == <<config, clearsOutput, iterations, probed>>
progress    == <<todo, fastest, timing>>
report      == <<result, outputs>>
rvars == <<pc, vars, validator, fixtureVars, plan, progress, report>>

RunnerInit ==
  /\ Init /\ ValidatorInit
  /\ pc = "startup"
  /\ config \in Configs
  /\ clearsOutput \in BOOLEAN
  /\ fixture = "unstarted" /\ work = 0 /\ output = EmptyHash
  /\ todo = 0 /\ fastest = 0 /\ iterations = 0 /\ timing = 0 /\ probed = {}
  /\ result = "none" /\ outputs = {}

-----------------------------------------------------------------------------
(* The fixture. *)

\* The fixture's work after n more executes, and what its output may be by then.
Worked(n) == Lesser(work + n, MaxWork)

AfterReset(o) == IF clearsOutput THEN EmptyHash ELSE o

\* Slip: the slice is not followed by a reset.
RunSlice_NoReset(n) ==
  /\ output' \in Produces[Worked(n)]
  /\ work' = Worked(n)
  /\ UNCHANGED fixture

\* internalRunSlice: n executes, a synchronize, then one reset.
RunSlice(n) ==
  /\ \E o \in Produces[Worked(n)] : output' = AfterReset(o)
  /\ work' = 0
  /\ UNCHANGED fixture

-----------------------------------------------------------------------------
(* From startup to the stopping knobs. *)

Startup ==
  /\ pc = "startup"
  /\ fixture' = "live"
  /\ todo' = config.warmupCount
  /\ pc' = IF config.kind = "Correctness" THEN "correctness" ELSE "warmup"
  /\ UNCHANGED <<vars, validator, work, output, plan, fastest, timing, report>>

\* Warm-up executes are not followed by a reset.
Warmup ==
  /\ pc = "warmup" /\ todo > 0
  /\ work' = Worked(1)
  /\ output' \in Produces[Worked(1)]
  /\ todo' = todo - 1
  /\ UNCHANGED <<pc, vars, validator, fixture, plan, fastest, timing, report>>

TakeConfiguredIterations ==
  /\ pc = "warmup" /\ todo = 0
  /\ config.iterations > 0
  /\ iterations' = config.iterations
  /\ pc' = "calibrate"
  /\ UNCHANGED <<vars, validator, fixtureVars, config, clearsOutput, probed, progress, report>>

\* The probe of internalResolveIterationsPerSlice that is not timed.
ColdProbe ==
  /\ pc = "warmup" /\ todo = 0
  /\ config.iterations = 0
  /\ RunSlice(1)
  /\ todo' = CalibrationProbes
  /\ pc' = "probe"
  /\ UNCHANGED <<vars, validator, plan, fastest, timing, report>>

\* Slip: the minimum starts from the zero that fastest is set to, not from the first probe.
FasterOf_FromZero(fast, t) ==
  IF t < fast THEN t ELSE fast

\* The fastest probe once a probe took t.
FasterOf(fast, t) ==
  IF todo = CalibrationProbes \/ t < fast THEN t ELSE fast

Probe ==
  /\ pc = "probe" /\ todo > 0
  /\ RunSlice(1)
  /\ \E t \in ProbeTimes :
        /\ fastest' = FasterOf(fastest, t)
        /\ probed' = probed \union {t}
  /\ todo' = todo - 1
  /\ UNCHANGED <<pc, vars, validator, config, clearsOutput, iterations, timing, report>>

\* TARGET_SLICE_SECONDS / fastest, truncated, plus one, between 1 and MAX_AUTO_ITERATIONS: an
\* exact quotient between the two gets one execute more as well.
AutoIterations(fast) ==
  IF fast = 0 \/ TargetSlice <= fast THEN 1
  ELSE IF TargetSlice >= MaxAutoIterations * fast THEN MaxAutoIterations
  ELSE TargetSlice \div fast + 1

TakeAutoIterations ==
  /\ pc = "probe" /\ todo = 0
  /\ iterations' = AutoIterations(fastest)
  /\ fastest' = 0 /\ probed' = {}
  /\ pc' = "calibrate"
  /\ UNCHANGED <<vars, validator, fixtureVars, config, clearsOutput, todo, timing, report>>

\* The calibration slice only selects the tier of the knobs.
Calibrate ==
  /\ pc = "calibrate"
  /\ RunSlice(iterations)
  /\ \E tier \in Tiers : DeriveKnobs(tier, config.knobs)
  /\ pc' = "slice"
  /\ UNCHANGED <<validator, plan, progress, report>>

-----------------------------------------------------------------------------
(* The slice loop. *)

\* internalRunSlice up to its reset: the measured executes.
ExecuteSlice ==
  /\ pc = "slice"
  /\ work' = Worked(iterations)
  /\ output' \in Produces[Worked(iterations)]
  /\ timing' \in WallTimes
  /\ outputs' = outputs \union {output'}
  /\ pc' = "reset"
  /\ UNCHANGED <<vars, validator, fixture, plan, todo, fastest, result>>

\* The end of internalRunSlice.
ResetSlice ==
  /\ pc = "reset"
  /\ work' = 0
  /\ output' = AfterReset(output)
  /\ pc' = "hash"
  /\ UNCHANGED <<vars, validator, fixture, plan, progress, report>>

\* getDeterminismHash and feedThreadHash, after the slice has been reset.
HashSlice ==
  /\ pc = "hash"
  /\ FeedThreadHash(output)
  /\ pc' = "validate"
  /\ UNCHANGED <<vars, fixtureVars, plan, progress, report>>

Validate ==
  /\ pc = "validate"
  /\ ValidateSlice
  /\ pc' = "feed"
  /\ UNCHANGED <<vars, fixtureVars, plan, progress, report>>

FeedStats ==
  /\ pc = "feed"
  /\ FeedSlice(timing)
  /\ pc' = "decide"
  /\ timing' = 0
  /\ UNCHANGED <<validator, fixtureVars, plan, todo, fastest, report>>

\* Slip: a failed run returns early and leaves its fixture up.
Decide_FailsEarly ==
  /\ pc = "decide"
  /\ ShouldStop
  /\ pc' = IF phase' # "stopped" THEN "slice"
           ELSE IF runFailed' THEN "assemble" ELSE "teardown"
  /\ UNCHANGED <<validator, fixtureVars, plan, progress, report>>

Decide ==
  /\ pc = "decide"
  /\ ShouldStop
  /\ pc' = IF phase' = "stopped" THEN "teardown" ELSE "slice"
  /\ UNCHANGED <<validator, fixtureVars, plan, progress, report>>

Teardown ==
  /\ pc = "teardown"
  /\ fixture' = "down"
  /\ pc' = "assemble"
  /\ UNCHANGED <<vars, validator, work, output, plan, progress, report>>

AssembleResult ==
  /\ pc = "assemble"
  /\ result' =
       [stats |-> Result, deterministic |-> deterministic, referenceHash |-> referenceHash,
        uniqueHashCount |-> uniqueHashCount, firstDivergenceSlice |-> firstDivergenceSlice]
  /\ pc' = "done"
  /\ UNCHANGED <<vars, validator, fixtureVars, plan, progress, outputs>>

\* What BenchmarkResult{} says of the statistics: zero, which for stopReason is CvConverged.
ZeroStats ==
  [sliceCount |-> 0, stopReason |-> "CvConverged", runFailed |-> FALSE, totalDiscards |-> 0,
   maxConsecutiveDiscards |-> 0, levelShifts |-> 0,
   finalSliceWallTime |-> [sum |-> 0, count |-> 0], medianSliceWallTime |-> 0]

\* internalRunCorrectnessOnce: one execute, hashed before the reset.
RunCorrectnessOnce ==
  /\ pc = "correctness"
  /\ \E o \in Produces[Worked(1)] :
        /\ output' = AfterReset(o)
        /\ outputs' = outputs \union {o}
        /\ result' = [stats |-> [ZeroStats EXCEPT !.sliceCount = 1], deterministic |-> TRUE,
                      referenceHash |-> o, uniqueHashCount |-> 1, firstDivergenceSlice |-> 0]
  /\ work' = 0
  /\ fixture' = "down"
  /\ pc' = "done"
  /\ UNCHANGED <<vars, validator, plan, progress>>

RunnerNext ==
  \/ Startup \/ Warmup \/ TakeConfiguredIterations
  \/ ColdProbe \/ Probe \/ TakeAutoIterations \/ Calibrate
  \/ ExecuteSlice \/ ResetSlice \/ HashSlice \/ Validate \/ FeedStats \/ Decide
  \/ Teardown \/ AssembleResult \/ RunCorrectnessOnce

\* One thread that takes no lock and waits for nothing.
RunnerSpec == RunnerInit /\ [][RunnerNext]_rvars /\ WF_rvars(RunnerNext)

-----------------------------------------------------------------------------
(* Properties. *)

Measured == pc = "done" /\ config.kind = "Performance"

\* Warm-up executes, probes and the calibration leave nothing behind: each measured slice
\* starts from a fixture that is live and has done no work since its last reset.
SlicesStartClean ==
  pc = "slice" => fixture = "live" /\ work = 0

\* The runner's two judges keep step: every slice the statistics fed, discarded ones too,
\* was validated, and the slices reported are all of them until a level shift drops some.
SlicesAreAccounted ==
  /\ pc \in {"slice", "decide", "done"} => acceptedSlices + totalDiscards <= currentSlice
  /\ pc \in {"slice", "decide", "done"} /\ levelShifts = 0 =>
        acceptedSlices + totalDiscards = currentSlice

\* "combined hash from the first accepted slice" (BenchmarkResult.h): the reference is the
\* hash of the first slice, which the validator sees before the statistics decide; the
\* statistics never discard that one.
ReferenceSliceIsAccepted ==
  pc = "decide" /\ currentSlice = 1 => acceptedSlices = 1 /\ consecutiveDiscards = 0

\* No false alarm: whatever a fixture does in resetImpl, it is only called nondeterministic
\* when two of its measured slices really produced different outputs.
NoFalseAlarm ==
  Measured /\ ~result.deterministic => Cardinality(outputs) > 1

\* "every slice hashes the fixture's output state; divergence is detected" (README.md), for
\* fixtures whose resetImpl leaves the output alone: two different outputs are never
\* reported as deterministic, and the distinct ones are counted.
RetainedDivergenceIsReported ==
  Measured /\ ~clearsOutput =>
     /\ Cardinality(outputs) > 1 => ~result.deterministic
     /\ result.uniqueHashCount = Lesser(Cardinality(outputs), MaxUniqueHashes)
     /\ result.referenceHash \in outputs

\* n executes of t ticks each outlast the target; a single one may also just reach it.
Outlasts(n, t) == n * t > TargetSlice \/ (n = 1 /\ t = TargetSlice)

\* "Slices of tens of microseconds turn one OS hiccup into a run of discards; sized by
\* time" (SequentialRunner.h): the count is the smallest whose slice outlasts the target at
\* the speed of every probe, the ceiling when none up to it does, and one execute when a
\* probe was too short for the clock to time.
SlicesReachTarget ==
  [][pc = "probe" /\ pc' = "calibrate" =>
        LET Outlasting == {n \in 1 .. MaxAutoIterations : \A t \in probed : Outlasts(n, t)}
        IN  IF 0 \in probed THEN iterations' = 1
            ELSE IF Outlasting = {} THEN iterations' = MaxAutoIterations
            ELSE iterations' \in Outlasting /\ \A n \in Outlasting : iterations' <= n]_rvars

\* Every run ends, with its fixture torn down and its result returned.
RunReturns == <>(pc = "done" /\ fixture = "down")

\* The run keeps the contract its callers rely on.
Contract == INSTANCE RunContract WITH
  stage <- IF fixture = "unstarted" THEN "fresh"
           ELSE IF pc = "done" THEN "reported"
           ELSE IF fixture = "down" THEN "down"
           ELSE IF phase = "calibrating" THEN "live"
           ELSE "measuring",
  budget <- IF phase = "calibrating" THEN 0 ELSE Budget,
  verdict <- IF pc # "done" THEN "none" ELSE IF result.stats.runFailed THEN "failed" ELSE "passed"

ContractKept == Contract!ContractSpec

-----------------------------------------------------------------------------
(* What the documentation says and the code does not do. *)

\* README.md: "every slice hashes the fixture's output state; divergence is detected,
\* tracked, and reported".  The hash is taken after resetImpl, so a fixture that wipes its
\* output there hashes the same emptiness every time.
DivergenceIsReported ==
  Measured /\ Cardinality(outputs) > 1 => ~result.deterministic
=============================================================================
