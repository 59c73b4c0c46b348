----------------------------- MODULE IsolatedRun -----------------------------
(***************************************************************************)
(* hades-driver run --isolate: cmdRunIsolate (Commands.cpp) starts the     *)
(* generated program once for every selected test, through runProcessTimed *)
(* (ProcessExec.cpp), and the program (MAIN_BODY_TEMPLATE of               *)
(* HadesCodegen.cpp) runs every compiled test its --fbt matches.           *)
(*                                                                         *)
(* Driver, program and clock are three actors.  A test passes, fails,      *)
(* takes the process down, or never ends; how it is run is the business    *)
(* of SuiteDriver.                                                         *)
(***************************************************************************)
EXTENDS Integers, Wildcard

CONSTANTS
  Programs,     \* the tests a program may be compiled from: sequences of records [id, kind]
  Additions,    \* what the user may append to suite.toml once the program is compiled
  Patterns,     \* --fbt, empty when not given
  Timeouts,     \* --timeout, in seconds, within the unsigned that holds it
  Cooldowns,    \* --cooldown, in seconds
  Platforms,    \* subset of {"windows", "posix"}
  MsPerSecond,  \* 1000
  MsRange       \* 2^32, the range of unsigned and of DWORD

ASSUME TimingAssumption ==
  /\ MsPerSecond \in Nat \ {0} /\ MsRange \in Nat \ {0}
  /\ Timeouts \subseteq 0 .. MsRange - 1 /\ Cooldowns \subseteq Nat
  /\ \A n \in Timeouts : (n * MsPerSecond) % MsRange # MsRange - 1  \* 1000 n is even
  /\ Platforms \subseteq {"windows", "posix"}

ASSUME TestsAssumption ==
  /\ \A p \in Programs : p \in Seq([id : Seq(STRING), kind : STRING])
  /\ Additions \subseteq Seq([id : Seq(STRING), kind : STRING])
  /\ Patterns \subseteq Seq(STRING)

VARIABLES
  compiled,  \* the tests in the program that was just built
  declared,  \* the tests in suite.toml
  request,   \* the flags of the command, and the platform
  phase,     \* where cmdRunIsolate is
  selected,  \* l_ids and l_isPerformance: the declared tests that --fbt matches
  outcomes,  \* l_outcomes
  failed,    \* l_failedCount
  waited,    \* milliseconds the wait for the process has taken
  child,     \* the process
  ran,       \* history: of every process, whether it started, its results, and how long
             \* it was given
  exitCode   \* of the command, -1 while it runs

ivars == <<compiled, declared, request, phase, selected, outcomes, failed, waited, child,
           ran, exitCode>>

NoChild == [running |-> FALSE, hung |-> FALSE, queue |-> <<>>, results |-> <<>>, code |-> 0]

IsolatedInit ==
  /\ compiled \in Programs /\ declared = compiled
  /\ request \in [fbt : Patterns, timeout : Timeouts, cooldown : Cooldowns, platform : Platforms]
  /\ phase = "read" /\ selected = <<>> /\ outcomes = <<>> /\ failed = 0
  /\ waited = 0 /\ child = NoChild /\ ran = <<>> /\ exitCode = -1

-----------------------------------------------------------------------------
(* The program                                                             *)

Matching(pattern, tests) ==
  SelectSeq(tests, LAMBDA t : pattern = <<>> \/ wildcardMatch(pattern, t.id))

\* The command line is not quoted: of an id only what stands before a blank is the
\* value of --fbt.
Argument(id) ==
  LET blanks == {n \in DOMAIN id : id[n] = " "}
      first == CHOOSE n \in blanks : \A m \in blanks : n <= m
  IN  IF blanks = {} THEN id ELSE SubSeq(id, 1, first - 1)

Started(id) == [running |-> TRUE, hung |-> FALSE, queue |-> Matching(Argument(id), compiled),
                results |-> <<>>, code |-> 0]

Ended(c, code) == [c EXCEPT !.running = FALSE, !.code = code]

Result(end) == [id |-> child.queue[Len(child.results) + 1].id, end |-> end]

\* The next test comes to an end, or to none.
TestEnds(end) ==
  /\ child.running /\ ~child.hung /\ Len(child.results) < Len(child.queue)
  /\ child' = LET c == [child EXCEPT !.results = Append(@, Result(end))]
              IN  CASE end = "crash" -> Ended(c, 3)
                    [] end = "hang"  -> [c EXCEPT !.hung = TRUE]
                    [] OTHER         -> c
  /\ UNCHANGED <<compiled, declared, request, phase, selected, outcomes, failed, waited, ran,
                 exitCode>>

\* ExitCodeListener: 1 if any of the tests failed.
ProgramEnds ==
  /\ child.running /\ ~child.hung /\ Len(child.results) = Len(child.queue)
  /\ child' = Ended(child, IF \E n \in DOMAIN child.results : child.results[n].end = "fail"
                           THEN 1 ELSE 0)
  /\ UNCHANGED <<compiled, declared, request, phase, selected, outcomes, failed, waited, ran,
                 exitCode>>

-----------------------------------------------------------------------------
(* runProcessTimed                                                         *)

Infinite == MsRange - 1

\* DWORD arithmetic; only Windows has a limit.
WaitMs ==
  IF request.platform = "posix" \/ request.timeout = 0 THEN Infinite
  ELSE (request.timeout * MsPerSecond) % MsRange

Current == selected[Len(outcomes) + 1]

\* Slip: whatever ends with exit code 0 passes, and so does what was killed.
Collect_ByCode(exit, timedOut, started, results) ==
  /\ outcomes' = Append(outcomes, [id |-> Current.id, passed |-> exit = 0, timedOut |-> timedOut])
  /\ failed' = failed + (IF exit = 0 THEN 0 ELSE 1)
  /\ ran' = Append(ran, [started |-> started, results |-> results])
  /\ phase' = "next" /\ child' = NoChild /\ waited' = 0
  /\ UNCHANGED <<compiled, declared, request, selected, exitCode>>

Collect(exit, timedOut, started, results) ==
  LET passed == ~timedOut /\ exit = 0
  IN  /\ outcomes' = Append(outcomes, [id |-> Current.id, passed |-> passed,
                                       timedOut |-> timedOut])
      /\ failed' = failed + (IF passed THEN 0 ELSE 1)
      /\ ran' = Append(ran, [started |-> started, results |-> results])
      /\ phase' = "next" /\ child' = NoChild /\ waited' = 0
      /\ UNCHANGED <<compiled, declared, request, selected, exitCode>>

Spawn ==
  /\ phase = "spawn"
  /\ phase' = "wait" /\ child' = Started(Current.id) /\ waited' = 0
  /\ UNCHANGED <<compiled, declared, request, selected, outcomes, failed, ran, exitCode>>

\* The capture file cannot be created, or the process cannot.
SpawnFails == phase = "spawn" /\ Collect(-1, FALSE, FALSE, <<>>)

\* The wait sees the process ended.
Exited == phase = "wait" /\ ~child.running /\ Collect(child.code, FALSE, TRUE, child.results)

\* One millisecond of the wait passes.
Tick ==
  /\ phase = "wait" /\ child.running /\ WaitMs # Infinite /\ waited < WaitMs
  /\ waited' = waited + 1
  /\ UNCHANGED <<compiled, declared, request, phase, selected, outcomes, failed, child, ran,
                 exitCode>>

\* The wait gives up; until it is killed the process goes on, and may still end.
TimesOut ==
  /\ phase = "wait" /\ WaitMs # Infinite /\ waited = WaitMs /\ child.running
  /\ phase' = "kill"
  /\ UNCHANGED <<compiled, declared, request, selected, outcomes, failed, waited, child, ran,
                 exitCode>>

\* Slip: the process is waited for once more, and not terminated.
Terminate_WaitsOnly == phase = "kill" /\ ~child.running /\ Collect(0, TRUE, TRUE, child.results)

\* TerminateProcess and the wait for its end.  m_ExitCode keeps its default, 0.
Terminate == phase = "kill" /\ Collect(0, TRUE, TRUE, child.results)

-----------------------------------------------------------------------------
(* cmdRunIsolate                                                           *)

\* The user, while the program is being compiled.
EditToml ==
  /\ phase = "read" /\ declared = compiled
  /\ \E tests \in Additions : declared' = declared \o tests
  /\ UNCHANGED <<compiled, request, phase, selected, outcomes, failed, waited, child, ran,
                 exitCode>>

ReadAndSelect ==
  /\ phase = "read"
  /\ selected' = Matching(request.fbt, declared)
  /\ IF selected' = <<>> THEN phase' = "done" /\ exitCode' = 1
                         ELSE phase' = "next" /\ UNCHANGED exitCode
  /\ UNCHANGED <<compiled, declared, request, outcomes, failed, waited, child, ran>>

\* suite.toml cannot be opened any more, or what the user made of it does not parse.
ReadFails ==
  /\ phase = "read" /\ phase' = "done" /\ exitCode' = 1
  /\ UNCHANGED <<compiled, declared, request, selected, outcomes, failed, waited, child, ran>>

\* The machine rests before a performance test, except before the first test.
NextTest ==
  /\ phase = "next" /\ Len(outcomes) < Len(selected)
  /\ phase' = IF request.cooldown > 0 /\ outcomes # <<>> /\ Current.kind = "performance"
              THEN "rest" ELSE "spawn"
  /\ UNCHANGED <<compiled, declared, request, selected, outcomes, failed, waited, child, ran,
                 exitCode>>

Rest ==
  /\ phase = "rest" /\ phase' = "spawn"
  /\ UNCHANGED <<compiled, declared, request, selected, outcomes, failed, waited, child, ran,
                 exitCode>>

Summary ==
  /\ phase = "next" /\ Len(outcomes) = Len(selected)
  /\ phase' = "done" /\ exitCode' = IF failed # 0 THEN 1 ELSE 0
  /\ UNCHANGED <<compiled, declared, request, selected, outcomes, failed, waited, child, ran>>

-----------------------------------------------------------------------------
ProgramStep == ProgramEnds \/ \E end \in {"pass", "fail", "crash", "hang"} : TestEnds(end)

DriverStep ==
  \/ ReadAndSelect \/ ReadFails \/ NextTest \/ Rest \/ Spawn \/ SpawnFails
  \/ Exited \/ TimesOut \/ Terminate \/ Summary

IsolatedNext == DriverStep \/ ProgramStep \/ Tick \/ EditToml

\* The driver and a test that does not hang go on, and time passes.
IsolatedSpec ==
  /\ IsolatedInit /\ [][IsolatedNext]_ivars
  /\ WF_ivars(DriverStep) /\ WF_ivars(ProgramStep) /\ WF_ivars(Tick)

-----------------------------------------------------------------------------
(* Properties                                                              *)

\* An id that --fbt takes for itself.
Plain(id) == id # <<>> /\ \A n \in DOMAIN id : id[n] \notin {" ", Star}

AllPassed(results) == \A n \in DOMAIN results : results[n].end = "pass"

SameIds(s, t) == Len(s) = Len(t) /\ \A n \in DOMAIN s : s[n].id = t[n].id

\* A test is reported as passed if and only if its process started, was not given up
\* and ran to a pass every compiled test that its id matches, and the command exits
\* with 0 if and only if all are: one that crashes, hangs or cannot start costs no
\* other test its verdict.  A test that is declared but not compiled passes unrun.
VerdictsAreTrue ==
  /\ \A i \in DOMAIN outcomes :
       outcomes[i].passed <=>
         /\ ~outcomes[i].timedOut /\ ran[i].started /\ AllPassed(ran[i].results)
         /\ SameIds(ran[i].results, Matching(Argument(outcomes[i].id), compiled))
  /\ phase = "done" /\ selected # <<>> =>
       /\ SameIds(outcomes, selected)
       /\ exitCode = 0 <=> \A i \in DOMAIN outcomes : outcomes[i].passed

\* Among ids without a star, --fbt selects what its glob describes, and a plain id
\* selects the tests of that id and no others.
FilterIsGlob ==
  LET tests == {declared[i] : i \in DOMAIN declared}
      noStar(id) == \A n \in DOMAIN id : id[n] # Star
  IN  \A t \in tests : noStar(t.id) =>
        /\ wildcardMatch(request.fbt, t.id) <=> Glob(request.fbt, t.id)
        /\ \A u \in tests : Plain(u.id) => (wildcardMatch(u.id, t.id) <=> t.id = u.id)

\* The command comes to its end whatever the tests do, unless one of them hangs under
\* a wait without limit.
IsolateReturns == <>(phase = "done" \/ (child.hung /\ WaitMs = Infinite))
=============================================================================
