------------------------- MODULE RegressionAnalyzer -------------------------
(***************************************************************************)
(* RegressionAnalyzer<H> over MemoryRegressionHistoryBackend, and the      *)
(* RegressionListener that keeps the worst of its outcomes                 *)
(* (src/src/Core/src/Public: RegressionAnalyzer.h, RegressionHistory.h and *)
(* HadesListeners.h).                                                      *)
(*                                                                         *)
(* Every result of a test is compared with the history of its id, then fed *)
(* to that history unless it failed.  Throughputs and divergence ratios    *)
(* are natural numbers of some unit.                                       *)
(***************************************************************************)
EXTENDS Naturals, SequencesExt, WelfordState

CONSTANTS
  TestIds,          \* the ids tests are recorded under
  KStddev,          \* m_kStddev
  MinHistoryFloor,  \* m_minHistoryFloor
  Results,          \* the results handed to evaluate
  JudgeLimit        \* bound on the results judged

ASSUME AnalyzerAssumption ==
  /\ KStddev \in Nat /\ MinHistoryFloor \in Nat /\ JudgeLimit \in Nat
  /\ \A r \in Results :
        /\ r.runFailed \in BOOLEAN /\ r.deterministic \in BOOLEAN /\ r.isHotspotRun \in BOOLEAN
        /\ r.meanThroughput \in Nat
        /\ r.readDivergenceRatio \in Nat /\ r.writeDivergenceRatio \in Nat

Entries == [throughput : WelfordStates, readDivergenceRatio : WelfordStates,
            writeDivergenceRatio : WelfordStates]

VARIABLES
  history,       \* m_entries; an id without an entry reads as three empty streams
  worstOutcome,  \* m_worstOutcome
  judged         \* history: every [id, result, outcome] so far, in order

analyzer == <<history, worstOutcome, judged>>

\* TestOutcome, with the numbers that rank its members.
Severity == [Pass |-> 0, Regressed |-> 1, Degraded |-> 3, Failed |-> 4]
Outcomes == DOMAIN Severity

Worse(a, b) == IF Severity[b] > Severity[a] THEN b ELSE a

EmptyEntry == [throughput |-> EmptyWelford, readDivergenceRatio |-> EmptyWelford,
               writeDivergenceRatio |-> EmptyWelford]

AnalyzerInit ==
  /\ history = [id \in TestIds |-> EmptyEntry]
  /\ worstOutcome = "Pass"
  /\ judged = <<>>

Trusted(result) == ~result.runFailed /\ result.deterministic

\* Slip: one sample too few is enough for a comparison.
Beyond_EarlyFloor(stream, value) ==
  /\ stream.count + 1 >= MinHistoryFloor
  /\ HasSpread(stream)
  /\ OutOfRange(stream, value, KStddev)

\* A stream that is long enough, has some spread, and is left by more than k of it.
Beyond(stream, value) ==
  /\ stream.count >= MinHistoryFloor
  /\ HasSpread(stream)
  /\ OutOfRange(stream, value, KStddev)

\* internalRatioDegraded of either ratio; only a hotspot run has ratios.
RatioDegraded(entry, result) ==
  /\ result.isHotspotRun
  /\ \/ Beyond(entry.readDivergenceRatio, result.readDivergenceRatio)
     \/ Beyond(entry.writeDivergenceRatio, result.writeDivergenceRatio)

Outcome(entry, result) ==
  IF ~Trusted(result) THEN "Failed"
  ELSE IF RatioDegraded(entry, result) THEN "Degraded"
  ELSE IF Beyond(entry.throughput, result.meanThroughput) THEN "Regressed"
  ELSE "Pass"

\* Slip: a plain run feeds its unset ratios as well.
Fed_Ungated(entry, result) ==
  [throughput |-> Update(entry.throughput, result.meanThroughput),
   readDivergenceRatio |-> Update(entry.readDivergenceRatio, result.readDivergenceRatio),
   writeDivergenceRatio |-> Update(entry.writeDivergenceRatio, result.writeDivergenceRatio)]

\* updateImpl: a plain run leaves the ratio streams alone.
Fed(entry, result) ==
  IF result.isHotspotRun
  THEN [throughput |-> Update(entry.throughput, result.meanThroughput),
        readDivergenceRatio |-> Update(entry.readDivergenceRatio, result.readDivergenceRatio),
        writeDivergenceRatio |-> Update(entry.writeDivergenceRatio, result.writeDivergenceRatio)]
  ELSE [entry EXCEPT !.throughput = Update(@, result.meanThroughput)]

\* evaluate, and what onTestComplete makes of its outcome.
Judge(id, result) ==
  LET outcome == Outcome(history[id], result)
  IN  /\ worstOutcome' = Worse(worstOutcome, outcome)
      /\ judged' = Append(judged, [id |-> id, result |-> result, outcome |-> outcome])

EvaluateFailed(id, result) ==
  /\ ~Trusted(result)
  /\ Judge(id, result)
  /\ UNCHANGED history

\* Slip: the listener keeps the latest outcome.
EvaluateTrusted_Latest(id, result) ==
  /\ Trusted(result)
  /\ worstOutcome' = Outcome(history[id], result)
  /\ judged' = Append(judged, [id |-> id, result |-> result,
                               outcome |-> Outcome(history[id], result)])
  /\ history' = [history EXCEPT ![id] = Fed(@, result)]

EvaluateTrusted(id, result) ==
  /\ Trusted(result)
  /\ Judge(id, result)
  /\ history' = [history EXCEPT ![id] = Fed(@, result)]

Evaluate(id, result) == EvaluateFailed(id, result) \/ EvaluateTrusted(id, result)

AnalyzerNext ==
  /\ Len(judged) < JudgeLimit
  /\ \E id \in TestIds, result \in Results : Evaluate(id, result)

AnalyzerSpec == AnalyzerInit /\ [][AnalyzerNext]_analyzer

-----------------------------------------------------------------------------
(* Properties. *)

\* The trusted results of a test among the first n judged.
TrustedBefore(id, n) ==
  {m \in 1 .. n : judged[m].id = id /\ Trusted(judged[m].result)}

\* The sum of the values at the places in S.
SumOver(S, values) ==
  LET sum[k \in 0 .. Len(values)] ==
        IF k = 0 THEN 0 ELSE sum[k - 1] + (IF k \in S THEN values[k] ELSE 0)
  IN  sum[Len(values)]

Statistics(S, values) ==
  [count |-> Cardinality(S), sum |-> SumOver(S, values),
   sumSq |-> SumOver(S, [m \in DOMAIN values |-> values[m] * values[m]])]

\* "history is left untouched so a bad run can't poison future comparisons": the history of
\* an id is the statistics of its trusted results and of no other run, in whatever order the
\* results of the ids arrived; a hotspot's ratio streams hold its hotspot runs only.
HistoryIsTheTrustedRuns ==
  \A id \in TestIds :
    LET runs    == TrustedBefore(id, Len(judged))
        hotspot == {m \in runs : judged[m].result.isHotspotRun}
        through == [m \in DOMAIN judged |-> judged[m].result.meanThroughput]
        read    == [m \in DOMAIN judged |-> judged[m].result.readDivergenceRatio]
        write   == [m \in DOMAIN judged |-> judged[m].result.writeDivergenceRatio]
    IN  history[id] = [throughput |-> Statistics(runs, through),
                       readDivergenceRatio |-> Statistics(hotspot, read),
                       writeDivergenceRatio |-> Statistics(hotspot, write)]

\* "inconclusive, not a false regression on N=1": a test is only ever called regressed after
\* MinHistoryFloor earlier trusted runs of its own, two of which differed; and degraded only
\* after as many hotspot runs.
VerdictNeedsHistory ==
  \A n \in DOMAIN judged :
    LET earlier == TrustedBefore(judged[n].id, n - 1)
        hotspot == {m \in earlier : judged[m].result.isHotspotRun}
    IN  /\ judged[n].outcome = "Regressed" =>
             /\ Cardinality(earlier) >= MinHistoryFloor
             /\ \E a, b \in earlier :
                   judged[a].result.meanThroughput # judged[b].result.meanThroughput
        /\ judged[n].outcome = "Degraded" => Cardinality(hotspot) >= MinHistoryFloor

\* "Failed > Degraded > Regressed > Pass": no later result hides a worse earlier one, and
\* the suite is not called worse than its worst test.
WorstOutcomeIsKept ==
  /\ \A n \in DOMAIN judged : Severity[judged[n].outcome] <= Severity[worstOutcome]
  /\ worstOutcome # "Pass" => \E n \in DOMAIN judged : judged[n].outcome = worstOutcome
=============================================================================
