------------------------- MODULE SuiteDriver_proof -------------------------
(***************************************************************************)
(* The judges of a suite agree and its performance tests start cool, for   *)
(* any suites, any fixtures, any order of the listeners and any number of  *)
(* runs over the same listeners.                                           *)
(***************************************************************************)
EXTENDS SuiteDriver, TLAPS

-----------------------------------------------------------------------------
(* The cooldown.                                                           *)

CInv ==
  /\ warm => anyRan
  /\ pc \in {"starting", "running", "reporting"} => anyRan
  /\ pc \in {"starting", "running"} /\ cooldown /\ Test.kind = "Performance" => ~warm

LEMMA CInit == SuiteInit => CInv
BY DEF SuiteInit, CInv

LEMMA CStep == ASSUME CInv, [SuiteNext]_svars PROVE CInv'
<1>1. ASSUME NEW tests \in Suites, Run(tests) PROVE CInv'
  BY <1>1 DEF Run, CInv, setup
<1>2. CASE BeginTest
  BY <1>2 DEF BeginTest, CInv, setup, Test
<1>3. CASE TellStart
  BY <1>3 DEF TellStart, Tell, CInv, setup, place, Test
<1>4. CASE RunFixture
  BY <1>4 DEF RunFixture, CInv, setup, place, Test
<1>5. CASE UnknownFixture
  BY <1>5 DEF UnknownFixture, CInv, setup, place, Test
<1>6. CASE TellComplete
  <2>1. PICK listener \in {"console", "storage", "regression", "exit"} : TellResult(listener)
    BY <1>6 DEF TellComplete, ConsoleComplete, StorageComplete, RegressionComplete, ExitCodeComplete
  <2> QED
    BY <2>1 DEF TellResult, Tell, CInv, setup, Test
<1>7. CASE TellSuiteComplete
  BY <1>7 DEF TellSuiteComplete, Tell, CInv, setup, place, Test
<1>8. CASE UNCHANGED svars
  BY <1>8 DEF svars, setup, place, CInv, Test
<1> QED
  BY <1>1, <1>2, <1>3, <1>4, <1>5, <1>6, <1>7, <1>8 DEF SuiteNext, SuiteStep

\* A performance test waits out the heat of the test before it (SuiteDriver::run).
THEOREM PerformanceCool == SuiteSpec => []PerformanceStartsCool
<1>1. CInv => PerformanceStartsCool
  BY DEF CInv, PerformanceStartsCool
<1>2. CInv /\ [SuiteNext]_svars => CInv'
  BY CStep
<1> QED
  BY <1>1, <1>2, CInit, PTL DEF SuiteSpec

-----------------------------------------------------------------------------
(* The judges.  While the listeners are told of a result, some know of it  *)
(* and some do not: what each has written is compared up to the result in  *)
(* hand.                                                                   *)

\* 1 if the listener was told of the result in hand, 0 if not.
Told(listener) ==
  IF pc = "reporting" /\ \E k \in 1 .. turn - 1 : Listeners[k] = listener THEN 1 ELSE 0

Line(e) == [id |-> e.id, passed |-> e.outcome # "Failed"]
InHand  == [id |-> Test.id, passed |-> Trusted(result)]

\* The console has c lines and the analyzer r verdicts of the result in hand; v is its line.
Logs(lines, verdicts, c, r, v) ==
  LET n == Len(verdicts) - r
  IN  /\ n \in Nat /\ Len(lines) = n + c
      /\ \A k \in 1 .. n : lines[k] = Line(verdicts[k])
      /\ c = 1 => lines[n + 1] = v
      /\ r = 1 => Line(verdicts[n + 1]) = v

\* The exit code has heard of x and the analyzer of r results in hand.
Alarms(failed, worst, x, r) ==
  /\ Trusted(result) \/ (x = 0 /\ r = 0) => (failed <=> worst = "Failed")
  /\ ~Trusted(result) => (x = 1 => failed) /\ (r = 1 => worst = "Failed")

IsLog(s) == \E S : s \in Seq(S)

Stages == {"idle", "next", "starting", "running", "reporting", "completing"}

JInv ==
  /\ pc \in Stages /\ turn \in 1 .. Len(Listeners)
  /\ pc \notin {"starting", "reporting", "completing"} => turn = 1
  /\ IsLog(console) /\ IsLog(judged)
  /\ anyFailed \in BOOLEAN /\ worstOutcome \in Outcomes
  /\ Logs(console, judged, Told("console"), Told("regression"), InHand)
  /\ Alarms(anyFailed, worstOutcome, Told("exit"), Told("regression"))

\* Every judge is told of every result.
AllJudges == {"console", "regression", "exit"} \subseteq {Listeners[k] : k \in DOMAIN Listeners}

LEMMA LogAppend ==
  ASSUME NEW s, IsLog(s), NEW e
  PROVE  /\ IsLog(Append(s, e)) /\ Len(s) \in Nat /\ Len(Append(s, e)) = Len(s) + 1
         /\ Append(s, e)[Len(s) + 1] = e
         /\ \A k \in 1 .. Len(s) : Append(s, e)[k] = s[k]
<1>1. PICK S : s \in Seq(S)
  BY DEF IsLog
<1>2. s \in Seq(S \cup {e})
  BY <1>1
<1>3. Append(s, e) \in Seq(S \cup {e})
  BY <1>2
<1> QED
  BY <1>2, <1>3 DEF IsLog

LEMMA LineWritten ==
  ASSUME NEW lines, IsLog(lines), NEW verdicts, IsLog(verdicts), NEW r \in {0, 1}, NEW v,
         Logs(lines, verdicts, 0, r, v)
  PROVE  Logs(Append(lines, v), verdicts, 1, r, v)
<1> DEFINE n == Len(verdicts) - r
<1>1. n \in Nat /\ Len(lines) = n /\ (r = 1 => Line(verdicts[n + 1]) = v)
      /\ \A k \in 1 .. n : lines[k] = Line(verdicts[k])
  BY DEF Logs
<1> HIDE DEF n
<1>2. /\ Len(Append(lines, v)) = n + 1 /\ Append(lines, v)[n + 1] = v
      /\ \A k \in 1 .. n : Append(lines, v)[k] = Line(verdicts[k])
  BY <1>1, LogAppend
<1> QED
  BY <1>1, <1>2 DEF Logs, n

LEMMA VerdictGiven ==
  ASSUME NEW lines, IsLog(lines), NEW verdicts, IsLog(verdicts), NEW c \in {0, 1}, NEW v, NEW e,
         Line(e) = v, Logs(lines, verdicts, c, 0, v)
  PROVE  Logs(lines, Append(verdicts, e), c, 1, v)
<1> DEFINE n == Len(verdicts)
<1>1. /\ n \in Nat /\ Len(lines) = n + c /\ (c = 1 => lines[n + 1] = v)
      /\ \A k \in 1 .. n : lines[k] = Line(verdicts[k])
  BY LogAppend DEF Logs
<1>2. /\ Len(Append(verdicts, e)) = n + 1 /\ Append(verdicts, e)[n + 1] = e
      /\ \A k \in 1 .. n : Append(verdicts, e)[k] = verdicts[k]
  BY LogAppend
<1> HIDE DEF n
<1>3. Len(Append(verdicts, e)) - 1 = n
  BY <1>1, <1>2
<1>4. \A k \in 1 .. n : lines[k] = Line(Append(verdicts, e)[k])
  BY <1>1, <1>2
<1> QED
  BY <1>1, <1>2, <1>3, <1>4 DEF Logs

\* Once both, or neither, have heard of the result in hand it is no longer in hand.
LEMMA LogsSettle ==
  ASSUME NEW lines, IsLog(lines), NEW verdicts, IsLog(verdicts), NEW c \in {0, 1}, NEW v, NEW u,
         Logs(lines, verdicts, c, c, v)
  PROVE  /\ Logs(lines, verdicts, 0, 0, u) /\ Len(lines) = Len(verdicts)
         /\ \A k \in 1 .. Len(verdicts) : lines[k] = Line(verdicts[k])
<1>1. Len(verdicts) \in Nat
  BY LogAppend
<1>2. CASE c = 0
  BY <1>1, <1>2 DEF Logs
<1>3. CASE c = 1
  <2> DEFINE n == Len(verdicts) - 1
  <2>1. /\ n \in Nat /\ Len(lines) = n + 1 /\ lines[n + 1] = v /\ Line(verdicts[n + 1]) = v
        /\ \A k \in 1 .. n : lines[k] = Line(verdicts[k])
    BY <1>3 DEF Logs
  <2>2. n + 1 = Len(verdicts)
    BY <1>1
  <2> HIDE DEF n
  <2>3. ASSUME NEW k \in 1 .. Len(verdicts) PROVE lines[k] = Line(verdicts[k])
    <3>1. k \in 1 .. n \/ k = n + 1
      BY <2>1, <2>2
    <3> QED
      BY <2>1, <3>1
  <2> QED
    BY <1>1, <2>1, <2>2, <2>3 DEF Logs
<1> QED
  BY <1>2, <1>3

LEMMA OutcomeFailed ==
  ASSUME NEW entry, NEW r
  PROVE  /\ Outcome(entry, r) \in Outcomes
         /\ Outcome(entry, r) = "Failed" <=> ~Trusted(r)
BY DEF Outcome, Outcomes, Severity

LEMMA WorseFailed ==
  ASSUME NEW a \in Outcomes, NEW b \in Outcomes
  PROVE  /\ Worse(a, b) \in Outcomes
         /\ Worse(a, b) = "Failed" <=> (a = "Failed" \/ b = "Failed")
BY DEF Worse, Outcomes, Severity

\* What a judge knows of the result in hand once the listener has been told.
After(judge, listener) == IF judge = listener THEN 1 ELSE Told(judge)

LEMMA Telling ==
  ASSUME JInv, NEW listener, TellResult(listener)
  PROVE  /\ pc' \in Stages /\ turn' \in 1 .. Len(Listeners)
         /\ pc' \notin {"starting", "reporting", "completing"} => turn' = 1
         /\ Told(listener) = 0 /\ result' = result
         /\ \A judge : Told(judge) \in {0, 1}
         /\ \/ /\ InHand' = InHand
               /\ \A judge : Told(judge)' = After(judge, listener)
            \/ /\ \A judge : Told(judge)' = 0
               /\ \A k \in DOMAIN Listeners : After(Listeners[k], listener) = 1
<1> DEFINE N == Len(Listeners)
<1>1. /\ N \in Nat /\ DOMAIN Listeners = 1 .. N /\ turn \in 1 .. N
      /\ \A i, k \in 1 .. N : Listeners[i] = Listeners[k] => i = k
  BY SuiteAssumption DEF JInv, IsInjective
<1>2. /\ pc = "reporting" /\ Listeners[turn] = listener /\ result' = result /\ suite' = suite
      /\ turn' = (IF turn = N THEN 1 ELSE turn + 1)
      /\ pc' = (IF turn = N THEN IF position = Len(suite) THEN "completing" ELSE "next"
                ELSE "reporting")
      /\ position' = (IF turn = N THEN position + 1 ELSE position)
  BY DEF TellResult, Tell
<1> HIDE DEF N
<1>3. /\ pc' \in Stages /\ turn' \in 1 .. N
      /\ pc' \notin {"starting", "reporting", "completing"} => turn' = 1
  BY <1>1, <1>2 DEF Stages
<1>4. Told(listener) = 0
  BY <1>1, <1>2 DEF Told
<1>5. \A judge : Told(judge) \in {0, 1}
  BY DEF Told
<1>6. CASE turn # N
  <2>1. InHand' = InHand
    BY <1>2, <1>6 DEF InHand, Test, Trusted
  <2>2. ASSUME NEW judge PROVE Told(judge)' = After(judge, listener)
    <3>1. pc' = "reporting" /\ turn' - 1 = turn /\ 1 .. turn = 1 .. turn - 1 \cup {turn}
      BY <1>1, <1>2, <1>6
    <3>2. (\E k \in 1 .. turn' - 1 : Listeners[k] = judge)
            <=> (judge = listener \/ \E k \in 1 .. turn - 1 : Listeners[k] = judge)
      BY <1>2, <3>1
    <3> QED
      BY <1>2, <3>1, <3>2 DEF Told, After
  <2> QED
    BY <1>3, <1>4, <1>5, <1>2, <2>1, <2>2 DEF N
<1>7. CASE turn = N
  <2>1. \A judge : Told(judge)' = 0
    BY <1>2, <1>7 DEF Told
  <2>2. ASSUME NEW k \in DOMAIN Listeners PROVE After(Listeners[k], listener) = 1
    <3>1. k = turn \/ k \in 1 .. turn - 1
      BY <1>1, <1>7
    <3> QED
      BY <1>2, <3>1 DEF After, Told
  <2> QED
    BY <1>3, <1>4, <1>5, <1>2, <2>1, <2>2 DEF N
<1> QED
  BY <1>6, <1>7

\* The judges keep in step when what they wrote of the result in hand fits.
LEMMA ToldFits ==
  ASSUME JInv, AllJudges, NEW listener, TellResult(listener),
         IsLog(console'), IsLog(judged'), anyFailed' \in BOOLEAN, worstOutcome' \in Outcomes,
         Logs(console', judged', After("console", listener), After("regression", listener), InHand),
         Alarms(anyFailed', worstOutcome', After("exit", listener), After("regression", listener))
  PROVE  JInv'
<1>1. /\ pc' \in Stages /\ turn' \in 1 .. Len(Listeners) /\ result' = result
      /\ pc' \notin {"starting", "reporting", "completing"} => turn' = 1
  BY Telling
<1>2. CASE InHand' = InHand /\ \A judge : Told(judge)' = After(judge, listener)
  BY <1>1, <1>2 DEF JInv, Alarms, Trusted
<1>3. CASE /\ \A judge : Told(judge)' = 0
           /\ \A k \in DOMAIN Listeners : After(Listeners[k], listener) = 1
  <2>0. \A judge \in {"console", "regression", "exit"} : After(judge, listener) = 1
    BY <1>3 DEF AllJudges
  <2>1. Logs(console', judged', 0, 0, InHand')
    BY <2>0, LogsSettle
  <2>2. anyFailed' <=> worstOutcome' = "Failed"
    BY <2>0 DEF Alarms
  <2>3. (Alarms(anyFailed, worstOutcome, 0, 0))'
    BY <2>2 DEF Alarms
  <2> QED
    BY <1>1, <1>3, <2>1, <2>3 DEF JInv
<1> QED
  BY <1>2, <1>3, Telling

LEMMA TellCompleteKeeps == ASSUME JInv, AllJudges, TellComplete PROVE JInv'
<1>1. /\ IsLog(console) /\ IsLog(judged) /\ anyFailed \in BOOLEAN /\ worstOutcome \in Outcomes
      /\ Logs(console, judged, Told("console"), Told("regression"), InHand)
      /\ Alarms(anyFailed, worstOutcome, Told("exit"), Told("regression"))
      /\ \A judge : Told(judge) \in {0, 1}
  BY DEF JInv, Told
<1>2. CASE ConsoleComplete
  <2>1. /\ TellResult("console") /\ Told("console") = 0
        /\ console' = Append(console, InHand)
        /\ judged' = judged /\ anyFailed' = anyFailed /\ worstOutcome' = worstOutcome
    BY <1>2, Telling DEF ConsoleComplete, analyzer, InHand, Trusted
  <2>2. Logs(console', judged', 1, Told("regression"), InHand) /\ IsLog(console')
    BY <1>1, <2>1, LineWritten, LogAppend
  <2> QED
    BY <1>1, <2>1, <2>2, ToldFits DEF After
<1>3. CASE StorageComplete
  <2>1. /\ TellResult("storage") /\ console' = console
        /\ judged' = judged /\ anyFailed' = anyFailed /\ worstOutcome' = worstOutcome
    BY <1>3 DEF StorageComplete, analyzer
  <2> QED
    BY <1>1, <2>1, ToldFits DEF After
<1>4. CASE RegressionComplete
  <2> DEFINE o == Outcome(history[Test.id], result)
             e == [id |-> Test.id, result |-> result, outcome |-> o]
  <2>1. /\ TellResult("regression") /\ Told("regression") = 0
        /\ console' = console /\ anyFailed' = anyFailed
    BY <1>4, Telling DEF RegressionComplete
  <2>2. judged' = Append(judged, e) /\ worstOutcome' = Worse(worstOutcome, o)
    BY <1>4 DEF RegressionComplete, Evaluate, EvaluateFailed, EvaluateTrusted, Judge
  <2>3. o \in Outcomes /\ (o = "Failed" <=> ~Trusted(result))
    BY OutcomeFailed
  <2>4. Line(e) = InHand
    BY <2>3 DEF Line, InHand, Trusted
  <2> HIDE DEF o, e
  <2>5. Logs(console', judged', Told("console"), 1, InHand) /\ IsLog(judged')
    BY <1>1, <2>1, <2>2, <2>4, VerdictGiven, LogAppend
  <2>6. worstOutcome' \in Outcomes /\ (worstOutcome' = "Failed" <=> worstOutcome = "Failed" \/ ~Trusted(result))
    BY <1>1, <2>2, <2>3, WorseFailed
  <2>7. Alarms(anyFailed', worstOutcome', Told("exit"), 1)
    BY <1>1, <2>1, <2>6 DEF Alarms
  <2> QED
    BY <1>1, <2>1, <2>5, <2>6, <2>7, ToldFits DEF After
<1>5. CASE ExitCodeComplete
  <2>1. /\ TellResult("exit") /\ Told("exit") = 0 /\ console' = console
        /\ judged' = judged /\ worstOutcome' = worstOutcome
        /\ anyFailed' = (anyFailed \/ ~Trusted(result))
    BY <1>5, Telling DEF ExitCodeComplete, analyzer, Trusted
  <2>2. anyFailed' \in BOOLEAN /\ Alarms(anyFailed', worstOutcome', 1, Told("regression"))
    BY <1>1, <2>1 DEF Alarms
  <2> QED
    BY <1>1, <2>1, <2>2, ToldFits DEF After
<1> QED
  BY <1>2, <1>3, <1>4, <1>5 DEF TellComplete

LEMMA JInit == SuiteInit => JInv
<1> SUFFICES ASSUME SuiteInit PROVE JInv
  OBVIOUS
<1>1. /\ pc = "idle" /\ turn = 1 /\ console = <<>> /\ judged = <<>> /\ anyFailed = FALSE
      /\ worstOutcome = "Pass"
  BY DEF SuiteInit, AnalyzerInit
<1>2. 1 \in 1 .. Len(Listeners)
  BY SuiteAssumption
<1>3. <<>> \in Seq({}) /\ Len(<<>>) = 0
  OBVIOUS
<1>4. IsLog(console) /\ IsLog(judged)
  BY <1>1, <1>3 DEF IsLog
<1>5. \A judge : Told(judge) = 0
  BY <1>1 DEF Told
<1>6. Logs(console, judged, 0, 0, InHand)
  BY <1>1, <1>3 DEF Logs
<1>7. Alarms(anyFailed, worstOutcome, 0, 0) /\ worstOutcome \in Outcomes
  BY <1>1 DEF Alarms, Outcomes, Severity
<1>8. Told("console") = 0 /\ Told("regression") = 0 /\ Told("exit") = 0
  BY <1>5
<1>9. pc \in Stages /\ anyFailed \in BOOLEAN
  BY <1>1 DEF Stages
<1> QED
  BY <1>1, <1>2, <1>4, <1>6, <1>7, <1>8, <1>9 DEF JInv

\* While no result is being told, the judges have heard of the same results.
LEMMA ElsewhereKeeps ==
  ASSUME JInv, pc # "reporting", UNCHANGED judges, pc' \in Stages, turn' \in 1 .. Len(Listeners),
         pc' \notin {"starting", "completing"} => turn' = 1
  PROVE  JInv'
<1>1. /\ IsLog(console) /\ IsLog(judged) /\ anyFailed \in BOOLEAN /\ worstOutcome \in Outcomes
      /\ Logs(console, judged, 0, 0, InHand)
      /\ Alarms(anyFailed, worstOutcome, 0, 0)
  BY DEF JInv, Told
<1>2. /\ console' = console /\ judged' = judged /\ anyFailed' = anyFailed
      /\ worstOutcome' = worstOutcome
  BY DEF judges, analyzer
<1>3. \A judge : Told(judge)' = 0
  <2>1. pc' = "reporting" => ~\E k \in 1 .. turn' - 1 : TRUE
    OBVIOUS
  <2> QED
    BY <2>1 DEF Told
<1>4. Logs(console', judged', 0, 0, InHand')
  BY <1>1, <1>2, LogsSettle
<1>5. (Alarms(anyFailed, worstOutcome, 0, 0))'
  BY <1>1, <1>2 DEF Alarms
<1> QED
  BY <1>1, <1>2, <1>3, <1>4, <1>5 DEF JInv

LEMMA JStep == ASSUME JInv, AllJudges, [SuiteNext]_svars PROVE JInv'
<1>1. /\ turn \in 1 .. Len(Listeners) /\ Len(Listeners) \in Nat
      /\ pc \notin {"starting", "reporting", "completing"} => turn = 1
  BY SuiteAssumption DEF JInv
<1>2. ASSUME NEW tests \in Suites, Run(tests) PROVE JInv'
  BY <1>1, <1>2, ElsewhereKeeps DEF Run, Stages
<1>3. CASE BeginTest
  BY <1>1, <1>3, ElsewhereKeeps DEF BeginTest, Stages
<1>4. CASE TellStart
  BY <1>1, <1>4, ElsewhereKeeps DEF TellStart, Tell, Stages
<1>5. CASE RunFixture
  BY <1>1, <1>5, ElsewhereKeeps DEF RunFixture, Stages
<1>6. CASE UnknownFixture
  BY <1>1, <1>6, ElsewhereKeeps DEF UnknownFixture, Stages
<1>7. CASE TellComplete
  BY <1>7, TellCompleteKeeps
<1>8. CASE TellSuiteComplete
  BY <1>1, <1>8, ElsewhereKeeps DEF TellSuiteComplete, Tell, Stages
<1>9. CASE UNCHANGED svars
  BY <1>9 DEF svars, judges, place, analyzer, JInv, Told, InHand, Test, Alarms, Trusted
<1> QED
  BY <1>2, <1>3, <1>4, <1>5, <1>6, <1>7, <1>8, <1>9 DEF SuiteNext, SuiteStep

LEMMA JAgrees == JInv => JudgesAgree
<1> SUFFICES ASSUME JInv, pc \in {"idle", "next"}
             PROVE  /\ Len(console) = Len(judged)
                    /\ \A n \in DOMAIN judged : console[n] = Line(judged[n])
                    /\ anyFailed <=> worstOutcome = "Failed"
  BY DEF JudgesAgree, Line
<1>1. /\ IsLog(console) /\ IsLog(judged) /\ Logs(console, judged, 0, 0, InHand)
      /\ Alarms(anyFailed, worstOutcome, 0, 0)
  BY DEF JInv, Told
<1>2. DOMAIN judged = 1 .. Len(judged)
  BY <1>1 DEF IsLog
<1> QED
  BY <1>1, <1>2, LogsSettle DEF Alarms

\* Whatever the order of the console, the regression listener and the exit code among the
\* listeners, and however often the suites are run, the three verdicts are one
\* (SuiteDriver::run and the onTestComplete of the three).
THEOREM JudgesAlwaysAgree == ASSUME AllJudges PROVE SuiteSpec => []JudgesAgree
<1>1. JInv /\ [SuiteNext]_svars => JInv'
  BY JStep
<1> QED
  BY <1>1, JInit, JAgrees, PTL DEF SuiteSpec

-----------------------------------------------------------------------------
(* The storage.                                                            *)

Least(a, b) == IF a < b THEN a ELSE b

\* The storage has s and the analyzer r records of the result in hand, v; the storage keeps
\* what it has room for.
Kept(results, verdicts, s, r, v) ==
  LET n == Len(verdicts) - r
  IN  /\ n \in Nat /\ Len(results) = Least(n + s, MaxStoredResults)
      /\ \A k \in 1 .. Len(results) :
           results[k] = IF k = n + 1 THEN v ELSE verdicts[k].result
      /\ r = 1 => verdicts[n + 1].result = v

KInv ==
  /\ JInv /\ IsLog(stored)
  /\ Kept(stored, judged, Told("storage"), Told("regression"), result)

StorageListens == {"storage", "regression"} \subseteq {Listeners[k] : k \in DOMAIN Listeners}

LEMMA ResultStored ==
  ASSUME NEW results, IsLog(results), NEW verdicts, NEW r \in {0, 1}, NEW v,
         Kept(results, verdicts, 0, r, v)
  PROVE  Kept(IF Len(results) >= MaxStoredResults THEN results ELSE Append(results, v),
              verdicts, 1, r, v)
<1> DEFINE n == Len(verdicts) - r
<1>1. /\ n \in Nat /\ Len(results) = Least(n, MaxStoredResults)
      /\ \A k \in 1 .. Len(results) :
           results[k] = IF k = n + 1 THEN v ELSE verdicts[k].result
      /\ r = 1 => verdicts[n + 1].result = v
  BY DEF Kept
<1>2. MaxStoredResults \in Nat /\ Len(results) \in Nat
  BY SuiteAssumption, LogAppend
<1> HIDE DEF n
<1>3. CASE Len(results) >= MaxStoredResults
  <2>1. Len(results) = Least(n + 1, MaxStoredResults)
    BY <1>1, <1>2, <1>3 DEF Least
  <2> QED
    BY <1>1, <1>3, <2>1 DEF Kept, n
<1>4. CASE ~(Len(results) >= MaxStoredResults)
  <2>1. Len(results) = n /\ n + 1 = Least(n + 1, MaxStoredResults)
    BY <1>1, <1>2, <1>4 DEF Least
  <2>2. /\ Len(Append(results, v)) = n + 1 /\ Append(results, v)[n + 1] = v
        /\ \A k \in 1 .. n : Append(results, v)[k] = verdicts[k].result
    BY <1>1, <2>1, LogAppend
  <2>3. \A k \in 1 .. n + 1 : Append(results, v)[k] = IF k = n + 1 THEN v ELSE verdicts[k].result
    BY <1>1, <2>2
  <2> QED
    BY <1>1, <1>4, <2>1, <2>2, <2>3 DEF Kept, n
<1> QED
  BY <1>3, <1>4

LEMMA ResultJudged ==
  ASSUME NEW results, NEW verdicts, IsLog(verdicts), NEW s \in {0, 1}, NEW v, NEW e,
         e.result = v, Kept(results, verdicts, s, 0, v), IsLog(results)
  PROVE  Kept(results, Append(verdicts, e), s, 1, v)
<1> DEFINE n == Len(verdicts)
<1>1. /\ n \in Nat /\ Len(results) = Least(n + s, MaxStoredResults) /\ Len(results) \in Nat
      /\ \A k \in 1 .. Len(results) :
           results[k] = IF k = n + 1 THEN v ELSE verdicts[k].result
  BY LogAppend DEF Kept
<1>2. /\ Len(Append(verdicts, e)) = n + 1 /\ Append(verdicts, e)[n + 1] = e
      /\ \A k \in 1 .. n : Append(verdicts, e)[k] = verdicts[k]
  BY LogAppend
<1> HIDE DEF n
<1>3. Len(Append(verdicts, e)) - 1 = n /\ Len(results) <= n + 1
  BY <1>1, <1>2, SuiteAssumption DEF Least
<1>4. ASSUME NEW k \in 1 .. Len(results)
      PROVE  results[k] = IF k = n + 1 THEN v ELSE Append(verdicts, e)[k].result
  <2>1. k = n + 1 \/ k \in 1 .. n
    BY <1>1, <1>3
  <2> QED
    BY <1>1, <1>2, <2>1
<1> QED
  BY <1>1, <1>2, <1>3, <1>4 DEF Kept

LEMMA KeptSettles ==
  ASSUME NEW results, IsLog(results), NEW verdicts, IsLog(verdicts), NEW c \in {0, 1}, NEW v,
         Kept(results, verdicts, c, c, v), NEW u
  PROVE  /\ Kept(results, verdicts, 0, 0, u)
         /\ Len(results) = Least(Len(verdicts), MaxStoredResults)
         /\ \A k \in 1 .. Len(results) : results[k] = verdicts[k].result
<1> DEFINE N == Len(verdicts)
<1>1. N \in Nat /\ Len(results) \in Nat /\ MaxStoredResults \in Nat
  BY LogAppend, SuiteAssumption
<1>2. /\ N - c \in Nat /\ Len(results) = Least(N - c + c, MaxStoredResults)
      /\ \A k \in 1 .. Len(results) : results[k] = IF k = N - c + 1 THEN v ELSE verdicts[k].result
      /\ c = 1 => verdicts[N - c + 1].result = v
  BY DEF Kept
<1> HIDE DEF N
<1>3. N - c + c = N
  BY <1>1
<1>4. Len(results) = Least(N, MaxStoredResults) /\ Len(results) <= N
  BY <1>1, <1>2, <1>3 DEF Least
<1>5. ASSUME NEW k \in 1 .. Len(results) PROVE results[k] = verdicts[k].result /\ k # N + 1
  <2>1. k # N + 1
    BY <1>1, <1>4
  <2>2. CASE c = 0
    BY <1>2, <1>1, <2>1, <2>2
  <2>3. CASE c = 1
    BY <1>2, <1>1, <2>1, <2>3
  <2> QED
    BY <2>1, <2>2, <2>3
<1> QED
  BY <1>1, <1>4, <1>5 DEF Kept, N

LEMMA KTell ==
  ASSUME KInv, JInv', StorageListens, NEW listener, TellResult(listener), IsLog(stored'),
         Kept(stored', judged', After("storage", listener), After("regression", listener), result)
  PROVE  KInv'
<1>1. result' = result /\ IsLog(judged')
  BY Telling DEF KInv, JInv
<1>2. CASE InHand' = InHand /\ \A judge : Told(judge)' = After(judge, listener)
  BY <1>1, <1>2 DEF KInv
<1>3. CASE /\ \A judge : Told(judge)' = 0
           /\ \A k \in DOMAIN Listeners : After(Listeners[k], listener) = 1
  <2>1. After("storage", listener) = 1 /\ After("regression", listener) = 1
    BY <1>3 DEF StorageListens
  <2>2. Kept(stored', judged', 0, 0, result')
    BY <1>1, <2>1, KeptSettles
  <2> QED
    BY <1>1, <1>3, <2>2 DEF KInv
<1> QED
  BY <1>2, <1>3, Telling DEF KInv

LEMMA KStep == ASSUME KInv, AllJudges, StorageListens, [SuiteNext]_svars PROVE KInv'
<1>1. JInv' /\ JInv /\ IsLog(stored) /\ IsLog(judged)
  BY JStep DEF KInv, JInv
<1>2. /\ Kept(stored, judged, Told("storage"), Told("regression"), result)
      /\ \A judge : Told(judge) \in {0, 1}
  BY DEF KInv, Told
<1>3. CASE UNCHANGED judges /\ pc # "reporting"
  <2>1. stored' = stored /\ judged' = judged
    BY <1>3 DEF judges, analyzer
  <2>2. Told("storage") = 0 /\ Told("regression") = 0
    BY <1>3 DEF Told
  <2>3. Told("storage")' = 0 /\ Told("regression")' = 0
    <3>1. pc' = "reporting" => turn' = 1
      BY <1>1, <1>3 DEF SuiteNext, SuiteStep, Run, BeginTest, TellStart, Tell, RunFixture,
        UnknownFixture, TellComplete, ConsoleComplete, StorageComplete, RegressionComplete,
        ExitCodeComplete, TellResult, TellSuiteComplete, svars, JInv
    <3>2. pc' = "reporting" => ~\E k \in 1 .. turn' - 1 : TRUE
      BY <3>1
    <3> QED
      BY <3>2 DEF Told
  <2>4. Kept(stored', judged', 0, 0, result')
    BY <1>1, <1>2, <2>1, <2>2, KeptSettles
  <2> QED
    BY <1>1, <2>1, <2>3, <2>4 DEF KInv
<1>4. CASE ConsoleComplete
  <2>1. TellResult("console") /\ stored' = stored /\ judged' = judged
    BY <1>4 DEF ConsoleComplete, analyzer
  <2> QED
    BY <1>1, <1>2, <2>1, KTell DEF After
<1>5. CASE ExitCodeComplete
  <2>1. TellResult("exit") /\ stored' = stored /\ judged' = judged
    BY <1>5 DEF ExitCodeComplete, analyzer
  <2> QED
    BY <1>1, <1>2, <2>1, KTell DEF After
<1>6. CASE StorageComplete
  <2>1. /\ TellResult("storage") /\ judged' = judged /\ Told("storage") = 0
        /\ stored' = IF Len(stored) >= MaxStoredResults THEN stored ELSE Append(stored, result)
    BY <1>1, <1>6, Telling DEF StorageComplete, analyzer
  <2>2. Kept(stored', judged', 1, Told("regression"), result)
    BY <1>1, <1>2, <2>1, ResultStored
  <2>3. IsLog(stored')
    BY <1>1, <2>1, LogAppend
  <2> QED
    BY <1>1, <2>1, <2>2, <2>3, KTell DEF After
<1>7. CASE RegressionComplete
  <2> DEFINE e == [id |-> Test.id, result |-> result, outcome |-> Outcome(history[Test.id], result)]
  <2>1. /\ TellResult("regression") /\ stored' = stored /\ Told("regression") = 0
        /\ judged' = Append(judged, e)
    BY <1>1, <1>7, Telling DEF RegressionComplete, Evaluate, EvaluateFailed, EvaluateTrusted, Judge
  <2>2. e.result = result
    OBVIOUS
  <2> HIDE DEF e
  <2>3. Kept(stored', judged', Told("storage"), 1, result)
    BY <1>1, <1>2, <2>1, <2>2, ResultJudged
  <2> QED
    BY <1>1, <2>1, <2>3, KTell DEF After
<1>8. CASE UNCHANGED svars
  BY <1>1, <1>2, <1>8 DEF svars, judges, place, analyzer, KInv, Told
<1>9. CASE SuiteNext /\ ~TellComplete
  <2>1. UNCHANGED judges /\ pc # "reporting"
    BY <1>9 DEF SuiteNext, SuiteStep, Run, BeginTest, TellStart, Tell, RunFixture, UnknownFixture,
                TellSuiteComplete
  <2> QED
    BY <1>3, <2>1
<1> QED
  BY <1>4, <1>5, <1>6, <1>7, <1>8, <1>9 DEF TellComplete

LEMMA KFirst == KInv => StoredAreTheFirst
<1> SUFFICES ASSUME KInv, pc \in {"idle", "next"}
             PROVE  stored = SubSeq([n \in DOMAIN judged |-> judged[n].result], 1,
                                    IF Len(judged) < MaxStoredResults THEN Len(judged)
                                    ELSE MaxStoredResults)
  BY DEF StoredAreTheFirst
<1> DEFINE m == Least(Len(judged), MaxStoredResults)
           results == [n \in DOMAIN judged |-> judged[n].result]
<1>1. IsLog(stored) /\ IsLog(judged) /\ Kept(stored, judged, 0, 0, result)
  BY DEF KInv, JInv, Told
<1>2. Len(stored) = m /\ \A k \in 1 .. m : stored[k] = judged[k].result
  BY <1>1, KeptSettles
<1>3. PICK S : stored \in Seq(S)
  BY <1>1 DEF IsLog
<1>4. /\ DOMAIN judged = 1 .. Len(judged) /\ m \in 0 .. Len(judged) /\ Len(judged) \in Nat
  BY <1>1, SuiteAssumption DEF IsLog, Least
<1>5. results \in Seq({judged[n].result : n \in DOMAIN judged}) /\ Len(results) = Len(judged)
  BY <1>4
<1>6. /\ SubSeq(results, 1, m) \in Seq({judged[n].result : n \in DOMAIN judged})
      /\ Len(SubSeq(results, 1, m)) = m
      /\ \A k \in 1 .. m : SubSeq(results, 1, m)[k] = judged[k].result
  BY <1>4, <1>5
<1>7. stored = SubSeq(results, 1, m)
  BY <1>2, <1>3, <1>6
<1> QED
  BY <1>7 DEF Least

\* The storage holds the first results, as many as it has room for, in the order of the
\* tests, for every capacity (MemoryStorageBackend::store).
THEOREM StorageKeepsFirst ==
  ASSUME AllJudges, StorageListens PROVE SuiteSpec => []StoredAreTheFirst
<1>1. SuiteInit => KInv
  <2>1. ASSUME SuiteInit PROVE KInv
    <3>1. JInv /\ stored = <<>> /\ judged = <<>> /\ pc = "idle"
      BY <2>1, JInit DEF SuiteInit, AnalyzerInit
    <3>2. Told("storage") = 0 /\ Told("regression") = 0
      BY <3>1 DEF Told
    <3>3. Kept(<<>>, <<>>, 0, 0, result) /\ IsLog(<<>>)
      <4>1. <<>> \in Seq({}) /\ Len(<<>>) = 0
        OBVIOUS
      <4> QED
        BY <4>1, SuiteAssumption DEF Kept, Least, IsLog
    <3> QED
      BY <3>1, <3>2, <3>3 DEF KInv
  <2> QED
    BY <2>1
<1>2. KInv /\ [SuiteNext]_svars => KInv'
  BY KStep
<1> QED
  BY <1>1, <1>2, KFirst, PTL DEF SuiteSpec

-----------------------------------------------------------------------------
(* What the listeners hear.                                                *)

Events == ({"start", "complete"} \X TestIds) \union {<<"suite">>}

\* How many events the suite has told all listeners of.
Announced ==
  IF pc = "idle" THEN IF runs = 0 THEN 0 ELSE 2 * Len(suite) + 1
  ELSE IF pc = "completing" THEN 2 * Len(suite)
  ELSE IF pc \in {"next", "starting"} THEN 2 * (position - 1)
  ELSE 2 * (position - 1) + 1

\* Each listener has heard what was announced, in the order of the transcript; those before the
\* turn have heard one event more.
HeardSoFar ==
  \A k \in DOMAIN Listeners :
     /\ Len(heard[k]) = Announced + (IF k < turn THEN 1 ELSE 0)
     /\ \A e \in 1 .. Len(heard[k]) : heard[k][e] = Transcript(suite)[e]

LInv ==
  /\ pc \in Stages /\ turn \in 1 .. Len(Listeners)
  /\ pc \notin {"starting", "reporting", "completing"} => turn = 1
  /\ runs \in Nat /\ suite \in Seq(Tests)
  /\ runs = 0 => pc = "idle"
  /\ position \in Nat
  /\ pc \in {"next", "starting", "running", "reporting"} => position \in 1 .. Len(suite)
  /\ heard \in [DOMAIN Listeners -> Seq(Events)]
  /\ HeardSoFar

\* The events of a test stand at its two places in the transcript, the end of the suite last.
LEMMA TranscriptAt ==
  ASSUME NEW tests \in Seq(Tests)
  PROVE  /\ DOMAIN Transcript(tests) = 1 .. 2 * Len(tests) + 1
         /\ Transcript(tests) \in Seq(Events) /\ Len(Transcript(tests)) = 2 * Len(tests) + 1
         /\ Transcript(tests)[2 * Len(tests) + 1] = <<"suite">>
         /\ \A n \in 1 .. Len(tests) :
               /\ Transcript(tests)[2 * (n - 1) + 1] = <<"start", tests[n].id>>
               /\ Transcript(tests)[2 * n] = <<"complete", tests[n].id>>
<1> DEFINE T == Transcript(tests)
           last == 2 * Len(tests) + 1
<1>1. /\ last \in Nat /\ DOMAIN T = 1 .. last
      /\ \A e \in 1 .. last :
            T[e] = IF e = last THEN <<"suite">>
                   ELSE IF e % 2 = 1 THEN <<"start", tests[(e + 1) \div 2].id>>
                   ELSE <<"complete", tests[e \div 2].id>>
  BY DEF Transcript
<1>2. ASSUME NEW n \in 1 .. Len(tests) PROVE tests[n].id \in TestIds
  <2>1. tests[n] \in Tests
    OBVIOUS
  <2> QED
    BY <2>1 DEF Tests
<1>3. ASSUME NEW n \in 1 .. Len(tests)
      PROVE  T[2 * (n - 1) + 1] = <<"start", tests[n].id>> /\ T[2 * n] = <<"complete", tests[n].id>>
  <2>1. /\ 2 * (n - 1) + 1 \in 1 .. last /\ 2 * n \in 1 .. last
        /\ 2 * (n - 1) + 1 # last /\ 2 * n # last
        /\ (2 * (n - 1) + 1) % 2 = 1 /\ (2 * n) % 2 # 1
        /\ (2 * (n - 1) + 1 + 1) \div 2 = n /\ (2 * n) \div 2 = n
    OBVIOUS
  <2> HIDE DEF T, last
  <2> QED
    BY <1>1, <2>1
<1>4. T[last] = <<"suite">>
  BY <1>1
<1>5. ASSUME NEW e \in 1 .. last PROVE T[e] \in Events
  <2>1. CASE e = last
    BY <1>4, <2>1 DEF Events
  <2>2. CASE e # last /\ e % 2 = 1
    <3>1. (e + 1) \div 2 \in 1 .. Len(tests)
      BY <2>2
    <3>2. T[e] = <<"start", tests[(e + 1) \div 2].id>>
      BY <1>1, <2>2
    <3> QED
      BY <1>2, <3>1, <3>2 DEF Events
  <2>3. CASE e # last /\ e % 2 # 1
    <3>1. e \div 2 \in 1 .. Len(tests)
      BY <2>3
    <3>2. T[e] = <<"complete", tests[e \div 2].id>>
      BY <1>1, <2>3
    <3> QED
      BY <1>2, <3>1, <3>2 DEF Events
  <2> QED
    BY <2>1, <2>2, <2>3
<1>6. T \in [1 .. last -> Events]
  BY <1>1, <1>5 DEF Transcript
<1> HIDE DEF T, last
<1>7. T \in Seq(Events) /\ Len(T) = last
  BY <1>1, <1>6
<1> QED
  BY <1>1, <1>3, <1>4, <1>7 DEF T, last

\* Telling a listener the next event of the transcript keeps the listeners in step.
LEMMA TellHeard ==
  ASSUME LInv, NEW stage, NEW event, NEW next, Tell(stage, event, next),
         Announced < 2 * Len(suite) + 1, event = Transcript(suite)[Announced + 1],
         suite' = suite
  PROVE  /\ heard' \in [DOMAIN Listeners -> Seq(Events)]
         /\ turn' \in 1 .. Len(Listeners)
         /\ \A k \in DOMAIN Listeners :
               /\ Len(heard'[k]) = Announced + (IF k <= turn THEN 1 ELSE 0)
               /\ \A e \in 1 .. Len(heard'[k]) : heard'[k][e] = Transcript(suite)[e]
<1>0. Announced \in Nat
  BY DEF LInv, Announced, Stages
<1>1. /\ DOMAIN Listeners = 1 .. Len(Listeners) /\ Len(Listeners) \in Nat
      /\ turn \in 1 .. Len(Listeners)
      /\ heard \in [DOMAIN Listeners -> Seq(Events)]
  BY SuiteAssumption DEF LInv
<1>2. event \in Events
  <2>1. Announced + 1 \in 1 .. 2 * Len(suite) + 1
    BY <1>0 DEF LInv
  <2> QED
    BY <2>1, TranscriptAt DEF LInv
<1>3. heard' = [heard EXCEPT ![turn] = Append(heard[turn], event)]
  BY DEF Tell
<1>4. Append(heard[turn], event) \in Seq(Events)
  BY <1>1, <1>2
<1>5. heard' \in [DOMAIN Listeners -> Seq(Events)] /\ turn' \in 1 .. Len(Listeners)
  <2> DEFINE N == Len(Listeners)
  <2>1. N \in Nat /\ turn \in 1 .. N /\ turn' = IF turn = N THEN 1 ELSE turn + 1
    BY <1>1 DEF Tell
  <2> HIDE DEF N
  <2>2. turn' \in 1 .. N
    BY <2>1
  <2> QED
    BY <1>1, <1>3, <1>4, <2>2 DEF N
<1>6. ASSUME NEW k \in DOMAIN Listeners
      PROVE  /\ Len(heard'[k]) = Announced + (IF k <= turn THEN 1 ELSE 0)
             /\ \A e \in 1 .. Len(heard'[k]) : heard'[k][e] = Transcript(suite)[e]
  <2>1. CASE k = turn
    <3>1. heard'[k] = Append(heard[k], event)
      BY <1>1, <1>3, <2>1
    <3>2. heard[k] \in Seq(Events) /\ Len(heard[k]) = Announced
      BY <1>0, <1>1, <2>1 DEF LInv, HeardSoFar
    <3>3. /\ Len(heard'[k]) = Announced + 1
          /\ \A e \in 1 .. Announced : heard'[k][e] = heard[k][e]
          /\ heard'[k][Announced + 1] = event
      BY <3>1, <3>2
    <3>4. \A e \in 1 .. Announced : heard[k][e] = Transcript(suite)[e]
      BY <3>2 DEF LInv, HeardSoFar
    <3>5. \A e \in 1 .. Announced + 1 : e = Announced + 1 \/ e \in 1 .. Announced
      BY <1>0
    <3> QED
      BY <1>1, <2>1, <3>3, <3>4, <3>5
  <2>2. CASE k # turn
    <3>1. heard'[k] = heard[k]
      BY <1>1, <1>3, <2>2
    <3>2. (k <= turn) <=> (k < turn)
      BY <1>1, <2>2
    <3> QED
      BY <3>1, <3>2 DEF LInv, HeardSoFar
  <2> QED
    BY <2>1, <2>2
<1> QED
  BY <1>5, <1>6

\* The listener whose turn it is moves the others' view on by one, the last one for all.
LEMMA HeardMovesOn ==
  ASSUME LInv, NEW stage, NEW event, NEW next, Tell(stage, event, next),
         Announced < 2 * Len(suite) + 1, event = Transcript(suite)[Announced + 1],
         suite' = suite,
         IF turn = Len(Listeners) THEN Announced' = Announced + 1 ELSE Announced' = Announced
  PROVE  HeardSoFar'
<1> DEFINE N == Len(Listeners)
<1>1. /\ Announced \in Nat /\ N \in Nat /\ turn \in 1 .. N /\ DOMAIN Listeners = 1 .. N
      /\ turn' = IF turn = N THEN 1 ELSE turn + 1
  <2>1. Announced \in Nat
    BY DEF LInv, Announced, Stages
  <2>2. N \in Nat /\ turn \in 1 .. N /\ DOMAIN Listeners = 1 .. N
    BY SuiteAssumption DEF LInv
  <2>3. turn' = IF turn = N THEN 1 ELSE turn + 1
    BY DEF Tell
  <2> QED
    BY <2>1, <2>2, <2>3
<1>2. \A k \in DOMAIN Listeners :
         /\ Len(heard'[k]) = Announced + (IF k <= turn THEN 1 ELSE 0)
         /\ \A e \in 1 .. Len(heard'[k]) : heard'[k][e] = Transcript(suite)[e]
  BY TellHeard
<1>3. IF turn = N THEN Announced' = Announced + 1 ELSE Announced' = Announced
  OBVIOUS
<1> HIDE DEF N
<1>4. \A k \in DOMAIN Listeners :
         Announced + (IF k <= turn THEN 1 ELSE 0) = Announced' + (IF k < turn' THEN 1 ELSE 0)
  BY <1>1, <1>3
<1> QED
  BY <1>2, <1>4 DEF HeardSoFar

LEMMA LInit == SuiteInit => LInv
<1> SUFFICES ASSUME SuiteInit PROVE LInv
  OBVIOUS
<1>1. /\ pc = "idle" /\ turn = 1 /\ runs = 0 /\ suite = <<>> /\ position = 0
      /\ heard = [k \in DOMAIN Listeners |-> <<>>]
  BY DEF SuiteInit
<1>2. 1 \in 1 .. Len(Listeners) /\ DOMAIN Listeners = 1 .. Len(Listeners)
  BY SuiteAssumption
<1>3. heard \in [DOMAIN Listeners -> Seq(Events)] /\ suite \in Seq(Tests)
  BY <1>1
<1>4. HeardSoFar
  BY <1>1, <1>2 DEF HeardSoFar, Announced
<1> QED
  BY <1>1, <1>2, <1>3, <1>4 DEF LInv, Stages

\* A step that tells nobody anything leaves what was heard alone.
LEMMA SilentStep ==
  ASSUME LInv, UNCHANGED <<heard, turn, suite>>, Announced' = Announced
  PROVE  HeardSoFar'
BY DEF LInv, HeardSoFar

LEMMA LStep == ASSUME LInv, [SuiteNext]_svars PROVE LInv'
<1>0. /\ pc \in Stages /\ runs \in Nat /\ suite \in Seq(Tests) /\ Len(suite) \in Nat
      /\ position \in Nat /\ turn \in 1 .. Len(Listeners) /\ Len(Listeners) \in Nat
      /\ DOMAIN Listeners = 1 .. Len(Listeners) /\ Len(Listeners) > 0
      /\ heard \in [DOMAIN Listeners -> Seq(Events)]
  BY SuiteAssumption DEF LInv
<1>1. ASSUME NEW tests \in Suites, Run(tests) PROVE LInv'
  <2>1. /\ pc = "idle" /\ suite' = tests /\ position' = 1 /\ runs' = runs + 1 /\ turn' = turn
        /\ heard' = [k \in DOMAIN Listeners |-> <<>>]
        /\ pc' = IF tests = <<>> THEN "completing" ELSE "next"
    BY <1>1 DEF Run
  <2>2. turn = 1 /\ tests \in Seq(Tests) /\ (tests # <<>> => 1 \in 1 .. Len(tests))
    BY <2>1, SuiteAssumption DEF LInv
  <2>3. heard' \in [DOMAIN Listeners -> Seq(Events)]
    BY <2>1
  <2>4. Announced' = 0
    <3>1. tests = <<>> => Len(tests) = 0
      OBVIOUS
    <3> QED
      BY <2>1, <3>1 DEF Announced
  <2>5. HeardSoFar'
    BY <1>0, <2>1, <2>2, <2>4 DEF HeardSoFar
  <2> QED
    BY <1>0, <2>1, <2>2, <2>3, <2>5 DEF LInv, Stages
<1>2. CASE BeginTest
  <2>1. /\ pc = "next" /\ pc' = "starting"
        /\ UNCHANGED <<suite, position, turn, runs, heard>>
    BY <1>2 DEF BeginTest
  <2>2. HeardSoFar'
    BY <2>1, SilentStep DEF Announced
  <2> QED
    BY <1>0, <2>1, <2>2 DEF LInv, Stages
<1>3. CASE TellStart
  <2>1. /\ Tell("starting", <<"start", Test.id>>, "running") /\ pc = "starting"
        /\ UNCHANGED <<suite, position, runs>>
        /\ pc' = IF turn = Len(Listeners) THEN "running" ELSE "starting"
        /\ turn' = IF turn = Len(Listeners) THEN 1 ELSE turn + 1
    BY <1>3 DEF TellStart, Tell, place
  <2>2. position \in 1 .. Len(suite) /\ runs # 0
    BY <2>1 DEF LInv
  <2>3. Announced = 2 * (position - 1) /\ Announced < 2 * Len(suite) + 1
    <3>1. Announced = 2 * (position - 1)
      BY <2>1 DEF Announced
    <3> QED
      BY <1>0, <2>2, <3>1
  <2>4. <<"start", Test.id>> = Transcript(suite)[Announced + 1]
    BY <1>0, <2>2, <2>3, TranscriptAt DEF Test
  <2>5. IF turn = Len(Listeners) THEN Announced' = Announced + 1 ELSE Announced' = Announced
    BY <2>1, <2>3 DEF Announced
  <2>6. HeardSoFar'
    BY <2>1, <2>3, <2>4, <2>5, HeardMovesOn
  <2>7. heard' \in [DOMAIN Listeners -> Seq(Events)] /\ turn' \in 1 .. Len(Listeners)
    BY <2>1, <2>3, <2>4, TellHeard
  <2> QED
    BY <1>0, <2>1, <2>2, <2>6, <2>7 DEF LInv, Stages
<1>4. CASE RunFixture \/ UnknownFixture
  <2>1. /\ pc = "running" /\ pc' = "reporting"
        /\ UNCHANGED <<suite, position, turn, runs, heard>>
    BY <1>4 DEF RunFixture, UnknownFixture, place
  <2>2. HeardSoFar'
    BY <2>1, SilentStep DEF Announced
  <2> QED
    BY <1>0, <2>1, <2>2 DEF LInv, Stages
<1>5. CASE TellComplete
  <2> DEFINE next == IF position = Len(suite) THEN "completing" ELSE "next"
  <2>1. /\ Tell("reporting", <<"complete", Test.id>>, next) /\ pc = "reporting"
        /\ UNCHANGED <<suite, runs>>
        /\ position' = IF turn = Len(Listeners) THEN position + 1 ELSE position
        /\ pc' = IF turn = Len(Listeners) THEN next ELSE "reporting"
        /\ turn' = IF turn = Len(Listeners) THEN 1 ELSE turn + 1
    BY <1>5 DEF TellComplete, ConsoleComplete, StorageComplete, RegressionComplete,
                ExitCodeComplete, TellResult, Tell
  <2>2. position \in 1 .. Len(suite) /\ runs # 0
    BY <2>1 DEF LInv
  <2>3. Announced = 2 * (position - 1) + 1 /\ Announced < 2 * Len(suite) + 1
    <3>1. Announced = 2 * (position - 1) + 1
      BY <2>1 DEF Announced
    <3> QED
      BY <1>0, <2>2, <3>1
  <2>4. <<"complete", Test.id>> = Transcript(suite)[Announced + 1]
    <3>1. Announced + 1 = 2 * position
      BY <2>2, <2>3
    <3> QED
      BY <1>0, <2>2, <3>1, TranscriptAt DEF Test
  <2>5. IF turn = Len(Listeners) THEN Announced' = Announced + 1 ELSE Announced' = Announced
    <3>1. CASE turn # Len(Listeners)
      BY <2>1, <2>3, <3>1 DEF Announced
    <3>2. CASE turn = Len(Listeners) /\ position = Len(suite)
      <4>1. Announced' = 2 * Len(suite)
        BY <2>1, <3>2 DEF Announced
      <4> QED
        BY <1>0, <2>3, <3>2, <4>1
    <3>3. CASE turn = Len(Listeners) /\ position # Len(suite)
      <4>1. Announced' = 2 * ((position + 1) - 1)
        BY <2>1, <3>3 DEF Announced
      <4> QED
        BY <1>0, <2>3, <3>3, <4>1
    <3> QED
      BY <3>1, <3>2, <3>3
  <2>6. HeardSoFar'
    BY <2>1, <2>3, <2>4, <2>5, HeardMovesOn
  <2>7. heard' \in [DOMAIN Listeners -> Seq(Events)] /\ turn' \in 1 .. Len(Listeners)
    BY <2>1, <2>3, <2>4, TellHeard
  <2>8. position' \in Nat /\ (pc' \in {"next", "reporting"} => position' \in 1 .. Len(suite'))
    <3>1. turn = Len(Listeners) /\ position = Len(suite) => pc' \notin {"next", "reporting"}
      BY <2>1
    <3>2. /\ position' = IF turn = Len(Listeners) THEN position + 1 ELSE position
          /\ suite' = suite
      BY <2>1
    <3>3. CASE turn # Len(Listeners)
      BY <1>0, <2>2, <3>2, <3>3
    <3>4. CASE turn = Len(Listeners) /\ position = Len(suite)
      <4>1. position' \in Nat
        BY <1>0, <3>2, <3>4
      <4>2. pc' \notin {"next", "reporting"}
        BY <3>1, <3>4
      <4> QED
        BY <4>1, <4>2
    <3>5. CASE turn = Len(Listeners) /\ position # Len(suite)
      <4>1. position + 1 \in 1 .. Len(suite) /\ position' = position + 1
        BY <1>0, <2>2, <3>2, <3>5
      <4>2. position' \in Nat /\ position' \in 1 .. Len(suite)
        BY <4>1, <1>0
      <4>3. suite' = suite
        BY <3>2
      <4> QED
        BY <4>2, <4>3
    <3> QED
      BY <3>3, <3>4, <3>5
  <2>9. pc' \in {"next", "reporting", "completing"} /\ (pc' = "next" => turn' = 1)
    BY <2>1
  <2> QED
    BY <1>0, <2>1, <2>2, <2>6, <2>7, <2>8, <2>9 DEF LInv, Stages
<1>6. CASE TellSuiteComplete
  <2>1. /\ Tell("completing", <<"suite">>, "idle") /\ pc = "completing"
        /\ UNCHANGED <<suite, position, runs>>
        /\ pc' = IF turn = Len(Listeners) THEN "idle" ELSE "completing"
        /\ turn' = IF turn = Len(Listeners) THEN 1 ELSE turn + 1
    BY <1>6 DEF TellSuiteComplete, Tell, place
  <2>2. runs # 0
    BY <2>1 DEF LInv
  <2>3. Announced = 2 * Len(suite) /\ Announced < 2 * Len(suite) + 1
    <3>1. Announced = 2 * Len(suite)
      BY <2>1 DEF Announced
    <3> QED
      BY <1>0, <3>1
  <2>4. <<"suite">> = Transcript(suite)[Announced + 1]
    BY <1>0, <2>3, TranscriptAt
  <2>5. IF turn = Len(Listeners) THEN Announced' = Announced + 1 ELSE Announced' = Announced
    BY <2>1, <2>2, <2>3 DEF Announced
  <2>6. HeardSoFar'
    BY <2>1, <2>3, <2>4, <2>5, HeardMovesOn
  <2>7. heard' \in [DOMAIN Listeners -> Seq(Events)] /\ turn' \in 1 .. Len(Listeners)
    BY <2>1, <2>3, <2>4, TellHeard
  <2> QED
    BY <1>0, <2>1, <2>2, <2>6, <2>7 DEF LInv, Stages
<1>7. CASE UNCHANGED svars
  <2>1. UNCHANGED <<pc, suite, position, turn, runs, heard>>
    BY <1>7 DEF svars, place
  <2>2. HeardSoFar'
    BY <2>1, SilentStep DEF Announced
  <2> QED
    BY <1>0, <2>1, <2>2 DEF LInv
<1> QED
  BY <1>1, <1>2, <1>3, <1>4, <1>5, <1>6, <1>7 DEF SuiteNext, SuiteStep

LEMMA LHeard == LInv => ListenersHearTheSuite
<1> SUFFICES ASSUME LInv PROVE ListenersHearTheSuite
  OBVIOUS
<1> DEFINE T == Transcript(suite)
<1>1. /\ DOMAIN Listeners = 1 .. Len(Listeners) /\ Len(Listeners) \in Nat
      /\ turn \in 1 .. Len(Listeners) /\ suite \in Seq(Tests) /\ Len(suite) \in Nat
      /\ heard \in [DOMAIN Listeners -> Seq(Events)]
  BY SuiteAssumption DEF LInv
<1>2. T \in Seq(Events) /\ Len(T) = 2 * Len(suite) + 1
  BY <1>1, TranscriptAt
<1>3. Announced \in Nat /\ Announced <= 2 * Len(suite) + 1
      /\ (turn > 1 => Announced < 2 * Len(suite) + 1)
  BY <1>1 DEF LInv, Announced, Stages
<1>4. ASSUME NEW k \in DOMAIN Listeners
      PROVE  /\ heard[k] \in Seq(Events)
             /\ Len(heard[k]) = Announced + (IF k < turn THEN 1 ELSE 0)
             /\ \A e \in 1 .. Len(heard[k]) : heard[k][e] = T[e]
  BY <1>1 DEF LInv, HeardSoFar
<1> HIDE DEF T
<1>5. ASSUME NEW k \in DOMAIN Listeners PROVE IsPrefix(heard[k], T)
  <2>1. Len(heard[k]) <= Len(T)
    BY <1>1, <1>2, <1>3, <1>4
  <2>2. SubSeq(heard[k], 1, Len(heard[k])) = SubSeq(T, 1, Len(heard[k]))
    BY <1>2, <1>4, <2>1
  <2> QED
    BY <2>1, <2>2 DEF IsPrefix
<1>6. ASSUME NEW j \in DOMAIN Listeners, NEW k \in DOMAIN Listeners, j < k
      PROVE  Len(heard[j]) - Len(heard[k]) \in 0 .. 1
  BY <1>1, <1>3, <1>4, <1>6
<1>7. ASSUME pc = "idle", runs > 0, NEW k \in DOMAIN Listeners PROVE heard[k] = T
  <2>1. turn = 1 /\ Announced = 2 * Len(suite) + 1
    BY <1>7 DEF LInv, Announced
  <2>2. Len(heard[k]) = Len(T)
    BY <1>1, <1>2, <1>4, <2>1
  <2> QED
    BY <1>2, <1>4, <2>2
<1> QED
  BY <1>5, <1>6, <1>7 DEF ListenersHearTheSuite, T

\* Every listener is told the same story, that of the suite in declaration order, for any suites,
\* fixtures and order of the listeners, and however often the driver is run.
THEOREM ListenersHear == SuiteSpec => []ListenersHearTheSuite
<1>1. LInv /\ [SuiteNext]_svars => LInv'
  BY LStep
<1> QED
  BY <1>1, LInit, LHeard, PTL DEF SuiteSpec
=============================================================================
