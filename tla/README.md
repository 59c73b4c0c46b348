# Hades in TLA+

This directory holds a formal model of [Hades](../src/README.md), a microbenchmarking pipeline:
TLA+ modules of its run time core and of the driver that edits, generates, builds and starts
suites, TLC configurations that check them on small instances, and proofs, checked by TLAPS, of what
holds for every value of the constants.

Source paths below are relative to `src/src/`.

## The system

A suite is a directory with a `registry.ini` (the fixtures it knows) and a `suite.toml` (the
tests it runs). `hades-driver` edits these files, generates a `main.cpp` from them (Codegen),
builds it and runs it. The generated program registers its fixtures and hands its tests to a
`SuiteDriver`, which runs each of them with a `SequentialRunner` and fans the result out to
listeners.

| Part | State it keeps | Operations | Talks to |
|---|---|---|---|
| `StatsAccumulator` (Core/…/StatsAccumulator.h) | knobs, slice and discard counters, the ring of the last discards, the jitter window, three Welford streams, the verdict | `deriveKnobs`, `feedSlice` (accept, discard, rebaseline), `shouldStop`, `assembleResult` | owned and called by the runner |
| `DeterminismValidator` (Validator.h, HadesHash.h) | accumulator, reference hash, deterministic flag, first divergence, distinct hashes | `feedThreadHash`, `validateSlice` | owned and called by the runner |
| `SequentialRunner` | the stage of the run | `run`: startup, warm-up, probes, calibration, slice loop, teardown, result | fixture, adapter, clock, the two parts above |
| Fixture, adapter, chrono point | user state; clocks | `startup`, `execute`, `reset`, `teardown`, `getDeterminismHash` | called by the runner |
| `SuiteDriver`, `FixtureRegistry` | tests, factories, cooldown | `run`, `setCooldown`, `registerFixture`, `find` | builds a fresh fixture per test, tells every listener |
| Listeners (HadesListeners.h, exit code listener of a generated main) | printed lines; worst outcome; any failure | `onTestStart`, `onTestComplete`, `onSuiteComplete` | storage backend, regression analyzer |
| Storage backends | an array of results and its count; a JSON file | `store` | called by the storage listener |
| `RegressionAnalyzer`, history | per test id three Welford streams | `evaluate`, `fetch`, `update` | called by the regression listener |
| Codegen | none | `scaffold`, `resolve` | writes generated files |
| `suite.toml` / `registry.ini` reading and writing | the files | read, append, map | called by Driver |
| Driver commands, `SuiteContext`, `ProcessExec` | files of the suite, the marker of the adopted suite, child processes | `init-suite`, `find-suite`, `rm`, `new-test`, `run`, `run --isolate`, `validate` | all of the above |

### What makes it correct, and what is hard

*Slice statistics.* The loop that measures has no timer. It ends by converging, at a hard cap, or
by one of two discard caps, while a *level shift* (the machine settles at another clock speed)
restarts the accepted slices and takes a run of discards back out of the total with an unsigned
subtraction. Correct means: it ends under every sequence of wall times, no counter wraps, the
median is over the newest samples, a level shift never lands on an interrupt's spikes of an
earlier run, two speeds are never mixed in one mean, and a machine that only settles does not
fail.

*Determinism.* A few fields stand for the whole history of the slice hashes; correct means that
they say of it exactly what their names say.

*A run.* The two judges see the same slices in a fixed order around the reset of the fixture, and
however the loop ends, the fixture is torn down once and one result is returned.

*A suite.* Every listener hears the same story, of unknown fixtures too; their verdicts, which
each computes by a rule of its own, agree; the history only learns from runs that can be trusted.

*Files and processes.* `suite.toml` and `registry.ini` are both source and result: commands append
to them, the user edits them, and every `run` generates and builds a program from them. A command
writes several files in turn, can be killed between any two writes, and does not learn of every
write that fails. Correct means: what is started is what the two files declare, a reported success
has happened, the marker names the suite that is adopted, and `validate` replaces a build only by
one that built. `run --isolate` runs each test in a process of its own, under a limit that may pass
while the test is just ending: its verdicts must be true of what the processes did.

Nothing in Core runs concurrently: a suite is one thread that takes no lock and waits for nothing
but its own cooldown. What is hard to test there is long sequences of legal steps, the numbers at
their boundaries, and the disagreement of parts that look at the same data. In the Driver it is the
order of writes against kills and edits, and three actors that move on their own: the driver, the
process it started, and the clock.
The full list, each at its line, is under `hazards` in PROJECT.json.

## Modules

| Module | Models | Checked by |
|---|---|---|
| `WelfordState` | the running mean and deviation, as count, sum and sum of squares | with its users |
| `StatsAccumulator` | StatsAccumulator.h | `MCStatsAccumulator` |
| `SettlingMachine` | StatsAccumulator on a machine that slows down | `MCSettlingMachine` |
| `DeterminismValidator` | Validator.h, the XOR accumulator of HadesHash.h | with its users |
| `DivergenceHistory` | the validator against the full history of hashes | itself |
| `SequentialRunner` | SequentialRunner.h, composed of the two above (by EXTENDS) and a fixture | `MCSequentialRunner` |
| `RunContract` | abstract: what callers may rely on of one run | as a PROPERTY of SequentialRunner |
| `RegressionAnalyzer` | RegressionAnalyzer.h, RegressionHistory.h, the regression listener | `MCRegressionAnalyzer` |
| `SuiteDriver` | SuiteDriver.cpp, the listeners, the memory storage; composes RegressionAnalyzer | `MCSuiteDriver` |
| `TextFile` | a text file that is appended to, in whole or in part | with its users |
| `SuiteToml` | TomlIO.cpp and Configuration.cpp: lines, tables, configs, and back | with HadesDriver |
| `RegistryIni` | RegistryIO.cpp | with HadesDriver |
| `HadesCodegen` | what of fixtures and tests reaches the generated files | with HadesDriver |
| `HadesDriver` | Commands.cpp and SuiteContext.cpp: all commands, composes the four above | `MCHadesDriver` |
| `Wildcard` | the matcher behind `--fbt`, and what a glob means | with IsolatedRun |
| `IsolatedRun` | `run --isolate`, ProcessExec.cpp, and the generated program under `--fbt` | `MCIsolatedRun` |

Proof modules: `StatsAccumulator_proof`, `SettlingMachine_proof`, `DivergenceHistory_proof`,
`SequentialRunner_proof`, `RegressionAnalyzer_proof`, `SuiteDriver_proof`, `HadesDriver_proof`,
`IsolatedRun_proof`, each about the module it is named after.

### How state and steps correspond to the code

* `StatsAccumulator`: the variables carry the names of the members (`discardRun` is the ring
  `m_discardRun`, `window` is `m_jitterWindow` with its slots, count and next, `welford` is
  `m_cpuWallTime`). `phase` says which call the runner makes next. `feedSlice` is three actions
  (`AcceptSlice`, `DiscardSlice`, `ShiftLevel`), one per way through it, `shouldStop` five, one
  per return. Wall times are natural numbers and thresholds percentages; all comparisons of doubles
  are cross-multiplied, so they are exact. A history variable, `recent`, remembers the baseline
  samples in the order they were taken. The device and driver-overhead streams are left out: no
  decision reads them.
* `DeterminismValidator`: a 64-bit hash is the set of its one bits, XOR the symmetric difference.
* `SequentialRunner`: `pc` is the next call of the thread. An action is one call, so that the order
  of execute, reset, hash, validate, feed and decide is explicit. The fixture does some `work` per
  execute, undone by `resetImpl`, and leaves an `output`; whether its reset wipes that output too
  is chosen once per behaviour (`clearsOutput`). Configs, probe times and outputs come from small
  sets. `fastest` is the code's running minimum of the probes; `probed`, the set of their times, and
  `outputs` are history variables.
* `RegressionAnalyzer`: one Welford record per id and stream. An id without an entry reads as empty
  streams, which is what `fetchImpl` returns.
* `SuiteDriver`: `pc` is the place in `run`, `turn` the listener told next, one action per call of a
  listener. `heard` and `warm` are history variables. The run of a fixture is one step here, with
  every result `SequentialRunner` can give in the fields the listeners read.

* `SuiteToml`, `RegistryIni`: a file is its lines and whether the last one ends in a newline; a line
  is what the parser makes of it. The readers go line by line, as the code does, note that there was an
  error and read on to the end; a caller that is told of one uses nothing of what was read. An append cut short leaves any number of its lines and any part of the next one; an append
  to an unterminated file makes one line of two. Numbers have the width the code casts them to.
* `HadesDriver`: a command is a sequence of steps, one per file it writes or tree it removes, and
  `job.at` is the next of them; `suites` holds the files of every directory, a generated file being
  the data it carries, or not whole. `Kill` may happen between any two steps. A write may fail with a
  report, or without one: what is still buffered when a file is closed is written by `fclose` or by a
  destructor, and nobody looks at the outcome. Between two commands the user may edit the two files: add
  lines to `suite.toml`, or save `registry.ini` without the blank lines and the newline at its end.
  A `remove_all` that fails may leave any part of the tree behind. `last`, `before`, `faulted`, `adopted`,
  `mishap` and `blemished` are history variables. `adopted` is what the user was told: it changes when
  `adoptSuite` answers that it has adopted a suite, and when `rm` has deleted the adopted one; an adoption
  that fails does not touch it. `mishap` is set by its causes: the marker named the suite that an `rm`
  deleted, and that `rm` was killed before it got to the marker, could not remove it or spelled the path
  differently; or an adoption truncated the marker and its write failed. CMake and the compiler are
  external: they want the three generated files in whole and no directory added twice, and may fail all
  the same.
* `IsolatedRun`: the driver (`phase` is the place in `cmdRunIsolate` and `runProcessTimed`), the
  process (`child`: the tests it will run, and how those it ran have ended) and the clock (`waited`)
  take their steps independently. `suite.toml` is read a second time after the build, with what the user
  made of it meanwhile, and that may fail (`ReadFails`). `ran` is a history variable.

Operators whose comment starts with *Slip* are not part of the model: each is what a definition
would be under a plausible mistake, and PROJECT.json (`mutants`) pairs it with the property that
notices.

## Runs

All runs switch deadlock checking off: a run, a suite, a command or a bounded history really is
over at some point, and the models then have no step left.

| Run | Question | Result |
|---|---|---|
| `stats_loop` | counters, rings, level shifts, end of the loop, under every sequence of four wall times | holds |
| `settling_machine` | three speeds, interrupts between the slow-downs: no failure, no mixed mean | holds |
| `divergence_history` | the verdict against the full history, with more distinct hashes than are tracked | holds |
| `benchmark_run` | whole runs of steady and flaky fixtures, and of a correctness test; refinement of RunContract | holds |
| `regression_history` | two tests, eight kinds of results, in any order | holds |
| `suite_run` | suites with unknown fixtures, run twice over the same listeners | holds |
| `suite_content` | the files of one suite under four commands, an edit and a fault: started is what is declared, settings arrive, the two files agree | holds |
| `suite_lifecycle` | all commands over two suites and two spellings of each path, with a fault: the marker, and what `validate` promotes | holds |
| `isolated_run` | `run --isolate` against tests that pass, fail, crash, hang or cannot start | holds |
| `masked_divergence` | differing outputs are always reported | violated |
| `unterminated_append` | an append leaves what is there as it is | violated |
| `removed_by_another_spelling` | `rm` clears the marker if it was the adopted suite | violated |

The violated ones state what the README, a header or a test says; PROJECT.json (`findings`) quotes it
and says what the code does instead. More disagreements of a comment with the code were met and need
no run, since a line or two show each of them:

* without configured iterations there is "1 execute()/slice" (SequentialRunner.h:174), but the function
  below the comment sizes slices by three probes (lines 188-198);
* `finalSliceWallTime` is "wall time of the last accepted slice" (BenchmarkResult.h:60), but
  StatsAccumulator.h:261 stores the mean;
* `reset` is "Called between iterations within a slice" (Fixture.h:59), but SequentialRunner.h:225
  calls it once per slice, which is how the model has it;
* the median is of "the last JITTER_WINDOW accepted slices" (StatsAccumulator.h:65); with a
  `consecutive_discard_cap` above `JITTER_WINDOW` a level shift fills the ring out of order
  (line 309);
* `totalDiscards` is "over the whole run" and `maxConsecutiveDiscards` the "longest run of
  back-to-back discards" (BenchmarkResult.h:76-77), but a level shift takes its discards out of the
  first only, so the second may be the larger;
* the total cap "scales with run length" (StatsAccumulator.h:165), but it is computed before a
  longer `maxSlices` of the config overrides that of the tier;
* `deterministic` is "false if any slice hash diverged" (BenchmarkResult.h:73), and the zeroed result
  of an unknown fixture (SuiteDriver.cpp:53) is false although no slice ran;
* `--isolate` kills a test "after --timeout seconds" (Driver/src/Private/main.cpp:54-55), but the
  seconds are multiplied by 1000 in 32 bits (ProcessExec.cpp:92): from 4294968 seconds on the limit
  wraps, and a test is killed long before it;
* `init-suite` and `find-suite` make a suite "the current suite [...] for every command below"
  (README.md:53); `adoptSuite` answers while its line is still buffered (SuiteContext.cpp:46), so when
  only the flush fails, a suite is reported as adopted and the marker is empty;
* an id is a "unique key" (Configuration.h:43), but nothing rejects a second test of the same id, which
  then shares the history of the first.

### Bounds, and why they are enough

* `stats_loop`: a window of three for eight, caps of two and three, at most four slices of a level
  and two level shifts. The wall times 10, 13, 15, 16 contain a pair that is an outlier of the one
  and level with the other, and a chain 10, 13, 16 in which each is an outlier of the one before, so
  that two level shifts in a row occur. Ring wrap-around, both caps, the hard cap, convergence and a
  shift after earlier discards all happen (every action fires).
* `settling_machine`: a window of four, three speeds for two shifts, two interrupts.
* `divergence_history`: every order of the four hashes of two bits in runs of up to five slices, with
  room for three distinct hashes, so that the array overflows and a hash returns after it has.
* `benchmark_run`: at most four slices, one level shift, up to two warm-ups and three probes. A probe
  takes 0, 2, 3, 5, 6 or 12 ticks against a target of 12 and a ceiling of four executes: too short to
  time, more executes than the ceiling, an exact quotient that lands above the ceiling when one is added,
  a rounded one, an exact one below the ceiling, and as long as the target. One
  execute on a clean fixture is steady and two give one of three outputs, so divergence depends on
  the iteration count as it would in a leaky fixture.
* `regression_history`: a floor of three samples and four results; plain runs at three speeds,
  hotspot runs with two ratios, and both kinds of untrusted results.
* `suite_run`: three tests, any subset of two fixtures registered, room for four of up to six
  results; `RunLimit` bounds the calls of `run`.

* `suite_content`: one directory, one test, a plain fixture and one that links a library, four
  commands, one edit and one fault. Four commands are `init-suite`, a `new-test` that is cut short, the
  same one again, and a `run` or `validate`, which is the longest story of repair; the edit adds the
  settings at the boundaries (a double that rounds, a whole-numbered double, a negative count) or leaves
  a file without its last newline.
* `suite_lifecycle`: two directories, each with and without a trailing separator, all six commands, five
  of them given, one fault; the contents of the files hardly matter here and are kept small.
* `isolated_run`: two tests, and a third added after the build, ids with a star and a blank in them, a second of two milliseconds
  and a four bit limit, so that a timeout of eight wraps to no time at all, and both platforms.

### Fairness

`Spec` and `RunnerSpec` assume weak fairness of the whole next-state relation. The code justifies
it: the loop is one thread that takes no lock and waits for nothing, and a call of a fixture is
assumed to return (one that does not hangs the program, and no property here is about that).
`SuiteSpec` assumes it of the steps of a `run` in progress only; that anybody calls `run` again is
not assumed. `IsolatedSpec` assumes it of the driver, of the process and of the clock, each by itself: the
operating system runs both processes, and time passes. A test that hangs has no step, so nothing is
assumed of it; that is why `IsolateReturns` excepts a hung test under a wait without limit.
`RegressionAnalyzer`, `DivergenceHistory` and `HadesDriver` are checked for safety only and have no
fairness: a command line tool owes nobody a next command.

## Proofs

Every theorem holds for all values of the constants that satisfy the named assumptions of the
modules. `StatsAssumption`, `ValidatorAssumption`, `SliceLimitAssumption`, `RunnerAssumption`,
`AnalyzerAssumption`, `SuiteAssumption`, `DriverAssumption`, `TimingAssumption` and `TestsAssumption`
say no more than that the header's constants and the derived knobs are positive and that inputs have
their types. `MachineAssumption` and `SettlingAssumption` describe the machine that settles: speeds that
agree within themselves and differ from one to the next by more than the threshold, no more of them
than level shifts allow, interrupts that show and that the caps leave room for. TLC evaluates all of
them in the runs.

What a recursive function computes, here the sum over a history, the loop of the matcher and the two parsers, is
proved without the library's induction, which the provers cannot apply: the set of arguments at which the
claim fails has a least element (`LeastNatural`), and there is none. For the lines of a file this is
`PlaceByPlace`, which is cited wherever a parser goes through them.

* **Statistics** (`StatsAccumulator_proof`): `TypeCorrect`, `DiscardsAccounted`,
  `DiscardRunSlower`, `LevelShiftSlower`, `SlicesCount`. The invariant `Inv` is the conjunction of
  the three state invariants that TLC checks. The type invariant is not inductive alone:
  that `totalDiscards` stays natural over a level shift needs `consecutiveDiscards <=
  totalDiscards`, and that a level shift moves to slower slices needs to know what each slot of the
  ring holds. There is one lemma per way through `feedSlice` and `shouldStop`. `SlicesCount` proves
  the variant that bounds the loop: each slice uses up some of `Budget`, which stays natural.
  `WindowIsNewest` proves `WindowHoldsNewest` where no consecutive cap exceeds the window
  (`CapsWithinWindow`, a hypothesis of the theorem, which the header's own constants satisfy and a
  Config may not). `NInv` adds the order of the ring (`InOrder`): which slot is the oldest decides
  what the next push drops, and the property alone does not say. `ShiftedBaselineSteady` carries the
  agreement of the discard run, in which each was compared with the others, over to the window made of it:
  the median is one of the samples, and each is within the threshold of it.
* **A machine that settles** (`SettlingMachine_proof`): `SettlingSucceeds` and `OneSpeedInTheMean`. `MInv`
  knows two situations. In `Settled` the window holds slices of the current speed only and at most one
  discard, an interrupt's, is in hand; in `Moving` it still holds the previous speed, and the discards in
  hand are all the slices there were of the current one, fewer than the cap. The median of slices of one
  speed is of that speed, so everything slower is discarded and nothing else; at the cap the run agrees
  and becomes the window. What the interrupts and one slow-down can discard stays below both caps.
* **Determinism** (`DivergenceHistory_proof`): `HistoryTypeCorrect`, `VerdictIsExact`,
  `FirstDivergenceIsExact`, `UniqueHashCountIsExact`. `HInv` adds to the properties what ties the
  fields to the history (`FieldsFollowHistory`: the slice count is its length, the reference its
  first element, the accumulator what has been fed).
* **A run** (`SequentialRunner_proof`): `RInv` is `Inv` together with `Control` (what the fixture
  and the statistics are in at each `pc`) and `Handed` (the time in hand is a wall time).
  `RunnerDrivesStats` shows that the runner takes only steps of `StatsAccumulator`.
  `Accounting` relates the slices the validator saw to those the statistics kept and gives
  `SlicesAccounted` and `ReferenceAccepted`. `RunnerKeepsContract` is the refinement: every step is
  a step of `RunContract` or leaves its three variables as they are; `SlicesCount`'s argument is what
  the step `Slice` needs.
  `NeverFalseAlarm` and `RetainedIsReported` follow from `DInv`: the fields of the validator speak of
  the set of hashes that the resets have left visible (`Fields`), with the slice in hand, whose
  hash is still to be validated, added to it in the middle of an iteration.
  `SlicesAreSized` says what the calibration is for, without the division the code does: the count is the
  smallest whose slice outlasts the target at the speed of every probe. `ProbesHeld` knows that `fastest`
  is the least of the probes so far; a count that suffices for it suffices for the slower ones
  (`SlowerOutlasts`), and the truncated quotient plus one is the smallest that does.
* **Regression verdicts** (`RegressionAnalyzer_proof`): `WorstKept` needs that the worst outcome is
  among those seen and none is worse. `VerdictHasHistory` needs `HistoryFits`: the streams' counts are
  those of the trusted runs of that test, and equal samples have zero scatter, which is what keeps
  a first difference from being called a regression. `HistoryTrusted` is about the contents: the sums
  and counts of a test's streams are those over its trusted results so far. One more result adds one
  summand (`SumOfAppend`), to its own test and no other (`StatisticsOfAppend`).
* **A suite** (`SuiteDriver_proof`): `PerformanceCool`, `JudgesAlwaysAgree`, `StorageKeepsFirst` and
  `ListenersHear`.
  The invariant of the second (`JInv`) says how far each judge has been told of the result in hand,
  and that up to there its account is the same function of what was heard. That of the fourth (`LInv`) says where in the transcript of the suite
  each listener is, by `pc`, `position` and `turn`. The second and third assume
  that the listeners in question are registered (`AllJudges`, `StorageListens`).
* **The marker** (`HadesDriver_proof`): `MarkerIsTheAdopted`, for any directories, commands and
  faults, with the two exceptions `mishap` names by their causes. In `MInv` the marker may lag behind
  the deletion by one step, inside `rm` and only there; a marker that strays has no adopted suite to be
  compared with, until the next adoption; and one that was truncated names no suite at all.
  `PromotesWhatBuilt` is about
  `ValidatePromotesWhatBuilt`. Its invariant `PInv` goes through `validate` stage by stage: what is
  known at each of the request, of `main.cpp` and of the two build directories, and that everything
  generated or built carries the name of its directory, without which the scratch build could not
  be told from another suite's. `RunsWhatIsDeclared` follows `run` in the same way (`Running`): once
  `main.cpp` is written it is what the two files declare, and what the build leaves in the directory of
  the chosen config is made of it, so whatever an earlier build left there is either overwritten or not
  looked at.
* **The files of a suite** (`HadesDriver_proof`, second half): `SettingsAreThoseWritten`,
  `NewTestAddsIt` and `TestsAskForTheRegistered`. They rest on what a parser makes of the lines of a file
  with something behind them. A parser reads a common beginning alike (`TomlPrefix`, `IniPrefix`), so an
  append starts where the old file left off; from there the lines of the new test or fixture are followed
  one by one. `EntryReads` and `FixtureIsAppended` are the results: whatever was there before, what is
  written is read back, in the last place, and nothing else changes. For a key that stands once in a table,
  which a parser sees to, the selection of a value is unique, and `SettingsAreThoseWritten` follows the
  value from the line over the cast, the generated text and the build to the program `Running` knows.
  Four invariants carry this through the commands. `Typed` says that files, the test and the fixture in
  hand are texts of the parsers' grammars, also where an append was cut anywhere; `RunsSound`, that a `run`
  past its first step has read a suite without a complaint. `Adding` is `new-test` from the inside: its
  fixture is valid or was registered already, and undisturbed the files are those of the beginning plus what
  is written so far. `Agreed` extends the property into the middle of
  `new-test`: every table of `suite.toml` asks for a registered fixture or for the one about to be
  registered. It is stated of tables and without `Sound`, so that no step has to know whether the suite
  read well before it.
  The theorems hold for any `NewTests`, `NewFixtures` and `TomlEdits` of the types `DriverAssumption` gives.
  The third has the hypothesis `EditsAddNoTest`: the lines a user adds open no test of their own, since a
  test written by hand may ask for what it likes (and `run` then rejects it).
* **Isolated runs** (`IsolatedRun_proof`): `IsolatedVerdicts`, for any
  programs, filters, limits and widths. `VInv` ties a process to the tests it ran: one that runs has
  not crashed, and one that has ended has crashed or is through, with the exit code to match.
  `FilterSelects` is about the matcher, for patterns
  and ids of any length. Its loop ends because where it is counts down like a number of three digits
  (`Rank`: stars not met, text the last star has not eaten, text not consumed); and at each of its
  places, on a text without a star, it will answer whether the rest of the glob takes the rest of the text
  from here or, behind the last star, from somewhere later (`Found`). That one star to go back to is
  enough is `LaterIsBehind`: what an earlier resumption could find is found behind the characters that
  were taken since.

Only model-checked, and not proved: liveness (`Terminates`, `RunReturns`, `SuiteReturns`,
`IsolateReturns`), which the proof system cannot do. Every invariant and every action property of a
passing run is also a theorem.

## Not modelled, and why

* The FNV accumulator, the JSON backend, console formatting, clock reads, adapters and the GPU
  path: data or pure I/O, which no decision reads. The support headers hold macros and constants.
* Doubles: wall times and throughputs are integers, so rounding is not part of the model; a double of
  `suite.toml` is a number of steps of a fixed size, which is enough to see it rounded in the
  generated program. The quotient of the calibration is an exact one.
* Interrupts that hit slices of a new speed before the baseline knows it: the code then may fail
  the run, and `SettlingMachine` excludes them explicitly.
* `assert` in the memory backend: compiled out of a release build, which is the build modelled.
* The characters of a line: quoting, escapes and comments of `suite.toml` are what the parser makes
  of them, and of the settings two doubles and three counts stand for all.
* The text of the generated C++ and CMake, CMake itself, generators with a single configuration,
  and CMake's complaint about a build directory that was moved, as `validate` moves it.
* `CollectExtraLinkTargets` keeps the first fixture of a target and drops others of the same target
  in another directory. The model does it and `Configurable` needs it for equal directories; what
  the linker makes of the dropped one is not modelled.
* What a user does to `suite.toml` while `run --isolate` builds may add a test that the started program
  does not have: its process selects nothing, exits with 0, and the test counts as passed without having
  run. The model does this too, and `VerdictsAreTrue` speaks of the tests the program selects.
* Two commands at once: nothing in the Driver prepares for it, no file is locked, and the README
  speaks of one user at one prompt.
* A suite adopted under a path with a trailing separator builds an executable that `run` does not
  find (Commands.cpp:60); `ProgramIsDeclared` states its second part for the other spelling.

## Where it could go

The modules above cover every component that keeps state or decides something. What is left, in
the order of what it would add:

1. an abstract specification of a suite as a set of tests and fixtures, with `HadesDriver` shown to
   implement it where no write fails;
2. the JSON backend, if anything ever reads what it writes.
