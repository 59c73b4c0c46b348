---------------------------- MODULE SuiteDriver ----------------------------
(***************************************************************************)
(* SuiteDriver::run and the listeners its results are fanned out to        *)
(* (src/src/Core/src/Private/SuiteDriver.cpp, HadesListeners.h, the exit   *)
(* code listener of a generated main in HadesCodegen.cpp, HadesStorage.h). *)
(*                                                                         *)
(* The driver runs the tests of a suite one after the other.  Every test   *)
(* is announced to every listener, run by a fresh fixture, and its result  *)
(* handed to every listener; the listeners keep their own verdicts of the  *)
(* same results.  A driver may be run again over the same listeners.       *)
(***************************************************************************)
EXTENDS RegressionAnalyzer

CONSTANTS
  Fixtures,         \* fixture names a test may ask for
  Suites,           \* the suites that are run, each a sequence of tests
  Listeners,        \* the order of the listeners, by kind
  MaxStoredResults, \* MAX_STORED_RESULTS
  Cooldowns,        \* whether setCooldown was given some seconds
  Throughputs,      \* what a performance test may measure
  RunLimit          \* bound on the calls of run

Tests == [id : TestIds, fixture : Fixtures, kind : {"Performance", "Correctness"}]

ASSUME SuiteAssumption ==
  /\ Suites \subseteq Seq(Tests)
  /\ Listeners \in Seq({"console", "storage", "regression", "exit"})
  /\ IsInjective(Listeners) /\ Listeners # <<>>
  /\ MaxStoredResults \in Nat /\ Cooldowns \subseteq BOOLEAN
  /\ Throughputs \subseteq Nat \ {0} /\ RunLimit \in Nat

VARIABLES
  pc,          \* where run() is
  registered,  \* the keys of m_factories
  cooldown,    \* m_cooldownSeconds > 0
  suite,       \* m_tests
  position,    \* the test in hand
  anyRan,      \* l_anyRan
  turn,        \* the listener told next
  result,      \* the result of the test in hand
  console,     \* what ConsoleListener printed, a [id, passed] per test
  stored,      \* m_Results of MemoryStorageBackend, up to m_Count
  anyFailed,   \* m_anyFailed of ExitCodeListener
  runs,        \* calls of run so far
  heard,       \* history: the events each listener was told of in this run
  warm         \* history: a fixture has run since the last cooldown

judges == <<console, stored, anyFailed, analyzer>>
setup  == <<registered, cooldown>>
place  == <<suite, position, anyRan>>
svars  == <<pc, setup, place, turn, result, judges, runs, heard, warm>>

\* BenchmarkResult{} and the fields the listeners read.
ZeroResult ==
  [runFailed |-> FALSE, deterministic |-> FALSE, uniqueHashCount |-> 0, isHotspotRun |-> FALSE,
   meanThroughput |-> 0, readDivergenceRatio |-> 0, writeDivergenceRatio |-> 0]

CorrectnessResult ==
  [ZeroResult EXCEPT !.deterministic = TRUE, !.uniqueHashCount = 1]

\* What SequentialRunner returns for a performance test.
PerformanceResults ==
  {[ZeroResult EXCEPT !.runFailed = failed, !.deterministic = same, !.meanThroughput = t,
                      !.uniqueHashCount = IF same THEN 1 ELSE 2]
     : failed \in BOOLEAN, same \in BOOLEAN, t \in Throughputs}

UnknownFixtureResult == [ZeroResult EXCEPT !.runFailed = TRUE]

SuiteInit ==
  /\ AnalyzerInit
  /\ pc = "idle"
  /\ registered \in SUBSET Fixtures /\ cooldown \in Cooldowns
  /\ suite = <<>> /\ position = 0 /\ anyRan = FALSE
  /\ turn = 1 /\ result = ZeroResult
  /\ console = <<>> /\ stored = <<>> /\ anyFailed = FALSE
  /\ runs = 0
  /\ heard = [k \in DOMAIN Listeners |-> <<>>] /\ warm = FALSE

-----------------------------------------------------------------------------
Test == suite[position]

Run(tests) ==
  /\ pc = "idle" /\ runs < RunLimit
  /\ suite' = tests /\ position' = 1 /\ anyRan' = FALSE
  /\ runs' = runs + 1
  /\ heard' = [k \in DOMAIN Listeners |-> <<>>] /\ warm' = FALSE
  /\ pc' = IF tests = <<>> THEN "completing" ELSE "next"
  /\ UNCHANGED <<setup, turn, result, judges>>

\* Slip: only a performance test is taken for something to cool down from.
BeginTest_AfterPerformance ==
  /\ pc = "next"
  /\ warm' = IF cooldown /\ anyRan /\ Test.kind = "Performance" THEN FALSE ELSE warm
  /\ anyRan' = (Test.kind = "Performance")
  /\ pc' = "starting"
  /\ UNCHANGED <<setup, suite, position, turn, result, judges, runs, heard>>

\* The head of the loop: the cooldown, if one is due.
BeginTest ==
  /\ pc = "next"
  /\ warm' = IF cooldown /\ anyRan /\ Test.kind = "Performance" THEN FALSE ELSE warm
  /\ anyRan' = TRUE
  /\ pc' = "starting"
  /\ UNCHANGED <<setup, suite, position, turn, result, judges, runs, heard>>

\* One turn of a loop over the listeners; the last one leads to the next stage.
Tell(stage, event, next) ==
  /\ pc = stage
  /\ heard' = [heard EXCEPT ![turn] = Append(@, event)]
  /\ turn' = IF turn = Len(Listeners) THEN 1 ELSE turn + 1
  /\ pc' = IF turn = Len(Listeners) THEN next ELSE stage

TellStart ==
  /\ Tell("starting", <<"start", Test.id>>, "running")
  /\ UNCHANGED <<setup, place, result, judges, runs, warm>>

\* find() and the run of a fresh fixture, which is gone before its result is told.
RunFixture ==
  /\ pc = "running"
  /\ Test.fixture \in registered
  /\ result' \in IF Test.kind = "Correctness" THEN {CorrectnessResult} ELSE PerformanceResults
  /\ warm' = TRUE
  /\ pc' = "reporting"
  /\ UNCHANGED <<setup, place, turn, judges, runs, heard>>

\* Slip: an unknown fixture is skipped with the zeroed result.
UnknownFixture_Skipped ==
  /\ pc = "running"
  /\ Test.fixture \notin registered
  /\ position' = position + 1
  /\ pc' = IF position = Len(suite) THEN "completing" ELSE "next"
  /\ UNCHANGED <<setup, suite, anyRan, turn, result, judges, runs, heard, warm>>

\* Slip: an unknown fixture is looked up again until it is found.
UnknownFixture_Retried ==
  /\ pc = "running"
  /\ Test.fixture \notin registered
  /\ UNCHANGED svars

UnknownFixture ==
  /\ pc = "running"
  /\ Test.fixture \notin registered
  /\ result' = UnknownFixtureResult
  /\ pc' = "reporting"
  /\ UNCHANGED <<setup, place, turn, judges, runs, heard, warm>>

-----------------------------------------------------------------------------
(* onTestComplete of the four listeners. *)

\* After the last listener the loop moves on to the next test.
TellResult(listener) ==
  /\ pc = "reporting" /\ Listeners[turn] = listener
  /\ Tell("reporting", <<"complete", Test.id>>,
          IF position = Len(suite) THEN "completing" ELSE "next")
  /\ position' = IF turn = Len(Listeners) THEN position + 1 ELSE position
  /\ UNCHANGED <<setup, suite, anyRan, result, runs, warm>>

ConsoleComplete ==
  /\ TellResult("console")
  /\ console' = Append(console, [id |-> Test.id,
                                 passed |-> ~result.runFailed /\ result.deterministic])
  /\ UNCHANGED <<stored, anyFailed, analyzer>>

\* Slip: a full backend makes room for the newest result.
StorageComplete_Wraps ==
  /\ TellResult("storage")
  /\ stored' = IF Len(stored) >= MaxStoredResults THEN Append(Tail(stored), result)
               ELSE Append(stored, result)
  /\ UNCHANGED <<console, anyFailed, analyzer>>

\* A full backend drops the result (the assertion is compiled out of a release build).
StorageComplete ==
  /\ TellResult("storage")
  /\ stored' = IF Len(stored) >= MaxStoredResults THEN stored ELSE Append(stored, result)
  /\ UNCHANGED <<console, anyFailed, analyzer>>

RegressionComplete ==
  /\ TellResult("regression")
  /\ Evaluate(Test.id, result)
  /\ UNCHANGED <<console, stored, anyFailed>>

\* Slip: the exit code looks at the discard caps only.
ExitCodeComplete_RunFailedOnly ==
  /\ TellResult("exit")
  /\ anyFailed' = (anyFailed \/ result.runFailed)
  /\ UNCHANGED <<console, stored, analyzer>>

ExitCodeComplete ==
  /\ TellResult("exit")
  /\ anyFailed' = (anyFailed \/ result.runFailed \/ ~result.deterministic)
  /\ UNCHANGED <<console, stored, analyzer>>

TellComplete == ConsoleComplete \/ StorageComplete \/ RegressionComplete \/ ExitCodeComplete

TellSuiteComplete ==
  /\ Tell("completing", <<"suite">>, "idle")
  /\ UNCHANGED <<setup, place, result, judges, runs, warm>>

SuiteStep ==
  BeginTest \/ TellStart \/ RunFixture \/ UnknownFixture \/ TellComplete \/ TellSuiteComplete

SuiteNext == (\E tests \in Suites : Run(tests)) \/ SuiteStep

\* run() is one thread; whether it is called again is up to its caller.
SuiteSpec == SuiteInit /\ [][SuiteNext]_svars /\ WF_svars(SuiteStep)

-----------------------------------------------------------------------------
(* Properties. *)

\* The events of a whole run: each test in declaration order, started, then completed.
Transcript(tests) ==
  LET last == 2 * Len(tests) + 1
  IN  [e \in 1 .. last |->
         IF e = last THEN <<"suite">>
         ELSE IF e % 2 = 1 THEN <<"start", tests[(e + 1) \div 2].id>>
         ELSE <<"complete", tests[e \div 2].id>>]

\* "Independent taps on the same immutable result": every listener is told the same story,
\* that of the suite in declaration order, unknown fixtures included, whatever the tests
\* before came to; none gets more than one event ahead of another; none misses the end.
ListenersHearTheSuite ==
  /\ \A k \in DOMAIN Listeners : IsPrefix(heard[k], Transcript(suite))
  /\ \A j, k \in DOMAIN Listeners : j < k => Len(heard[j]) - Len(heard[k]) \in 0 .. 1
  /\ pc = "idle" /\ runs > 0 => \A k \in DOMAIN Listeners : heard[k] = Transcript(suite)

\* The judges agree: the console prints FAILED for exactly the tests the regression
\* listener calls Failed, and the exit code of the process is nonzero exactly when one did.
JudgesAgree ==
  pc \in {"idle", "next"} =>
     /\ Len(console) = Len(judged)
     /\ \A n \in DOMAIN judged :
           console[n] = [id |-> judged[n].id, passed |-> judged[n].outcome # "Failed"]
     /\ anyFailed <=> worstOutcome = "Failed"

\* The storage keeps the results of the first tests, in the order they ran, also when more
\* tests are run than it has room for.
StoredAreTheFirst ==
  pc \in {"idle", "next"} =>
     stored = SubSeq([n \in DOMAIN judged |-> judged[n].result], 1,
                     IF Len(judged) < MaxStoredResults THEN Len(judged) ELSE MaxStoredResults)

\* "Seconds to idle before each performance test that follows another test, so heat from the
\* previous one doesn't throttle it": with a cooldown, no performance test starts on a
\* machine that another test of the run has warmed up.
PerformanceStartsCool ==
  pc = "running" /\ cooldown /\ Test.kind = "Performance" => ~warm

\* Every call of run() returns, whatever is registered and whatever the tests come to.
SuiteReturns == pc # "idle" ~> pc = "idle"
=============================================================================
