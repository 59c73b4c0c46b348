---------------------- MODULE RegressionAnalyzer_proof ----------------------
(***************************************************************************)
(* The worst outcome is kept and no verdict is given without a history,    *)
(* for any tests, any results in any order and any floor.                  *)
(***************************************************************************)
EXTENDS RegressionAnalyzer, FiniteSetTheorems, WellFoundedInduction, TLAPS

Judgments == [id : TestIds, result : Results, outcome : Outcomes]

LEMMA Severities ==
  /\ Outcomes = {"Pass", "Regressed", "Degraded", "Failed"}
  /\ \A o \in Outcomes : Severity[o] \in 0 .. 4 /\ (o = "Pass" <=> Severity[o] = 0)
BY DEF Outcomes, Severity

LEMMA OutcomeType == ASSUME NEW entry, NEW result PROVE Outcome(entry, result) \in Outcomes
BY Severities DEF Outcome

LEMMA ResultsType ==
  ASSUME NEW r \in Results
  PROVE  r.meanThroughput \in Nat /\ r.readDivergenceRatio \in Nat /\ r.writeDivergenceRatio \in Nat
BY AnalyzerAssumption

-----------------------------------------------------------------------------
(* The worst outcome.                                                      *)

WInv == judged \in Seq(Judgments) /\ worstOutcome \in Outcomes /\ WorstOutcomeIsKept

LEMMA WInit == AnalyzerInit => WInv
BY Severities DEF AnalyzerInit, WInv, WorstOutcomeIsKept

LEMMA JudgeKeeps ==
  ASSUME WInv, NEW id \in TestIds, NEW result \in Results, Judge(id, result)
  PROVE  WInv'
<1> DEFINE o == Outcome(history[id], result)
           e == [id |-> id, result |-> result, outcome |-> o]
           n == Len(judged) + 1
<1>1. o \in Outcomes /\ e \in Judgments
  BY OutcomeType DEF Judgments
<1>2. judged \in Seq(Judgments) /\ judged' = Append(judged, e) /\ worstOutcome' = Worse(worstOutcome, o)
  BY DEF WInv, Judge
<1>3. e.outcome = o
  OBVIOUS
<1> HIDE DEF o, e
<1>4. /\ judged' \in Seq(Judgments) /\ DOMAIN judged' = DOMAIN judged \cup {n}
      /\ \A k \in DOMAIN judged : judged'[k] = judged[k] /\ judged[k].outcome \in Outcomes
      /\ judged'[n] = e
  <2>1. /\ judged' \in Seq(Judgments) /\ DOMAIN judged' = DOMAIN judged \cup {n}
        /\ \A k \in DOMAIN judged : judged'[k] = judged[k]
        /\ judged'[n] = e
    BY <1>1, <1>2
  <2>2. \A k \in DOMAIN judged : judged[k] \in Judgments
    BY <1>2
  <2> QED
    BY <2>1, <2>2 DEF Judgments
<1>5. /\ worstOutcome' \in {worstOutcome, o} /\ worstOutcome' \in Outcomes
      /\ Severity[worstOutcome] <= Severity[worstOutcome'] /\ Severity[o] <= Severity[worstOutcome']
  BY <1>1, <1>2, Severities DEF Worse, WInv
<1>6. \A k \in DOMAIN judged' : Severity[judged'[k].outcome] <= Severity[worstOutcome']
  <2>1. ASSUME NEW k \in DOMAIN judged PROVE Severity[judged'[k].outcome] <= Severity[worstOutcome']
    <3>1. Severity[judged[k].outcome] <= Severity[worstOutcome]
      BY DEF WInv, WorstOutcomeIsKept
    <3>2. /\ Severity[judged[k].outcome] \in Int /\ Severity[worstOutcome] \in Int
          /\ Severity[worstOutcome'] \in Int
      BY <1>4, <1>5, Severities DEF WInv
    <3> QED
      BY <1>4, <1>5, <3>1, <3>2
  <2> QED
    BY <1>3, <1>4, <1>5, <2>1
<1>7. ASSUME worstOutcome' # "Pass" PROVE \E k \in DOMAIN judged' : judged'[k].outcome = worstOutcome'
  <2>1. CASE worstOutcome' = o
    BY <1>3, <1>4, <2>1
  <2>2. CASE worstOutcome' = worstOutcome
    BY <1>4, <1>7, <2>2 DEF WInv, WorstOutcomeIsKept
  <2> QED
    BY <1>5, <2>1, <2>2
<1> QED
  BY <1>4, <1>5, <1>6, <1>7 DEF WInv, WorstOutcomeIsKept

\* No later result hides a worse one, in any order (RegressionListener::onTestComplete).
THEOREM WorstKept == AnalyzerSpec => []WorstOutcomeIsKept
<1>1. WInv /\ [AnalyzerNext]_analyzer => WInv'
  <2> SUFFICES ASSUME WInv, [AnalyzerNext]_analyzer PROVE WInv'
    OBVIOUS
  <2>1. CASE AnalyzerNext
    BY <2>1, JudgeKeeps DEF AnalyzerNext, Evaluate, EvaluateFailed, EvaluateTrusted
  <2>2. CASE UNCHANGED analyzer
    BY <2>2 DEF analyzer, WInv, WorstOutcomeIsKept
  <2> QED
    BY <2>1, <2>2
<1>2. WInv => WorstOutcomeIsKept
  BY DEF WInv
<1> QED
  BY <1>1, <1>2, WInit, PTL DEF AnalyzerSpec

-----------------------------------------------------------------------------
(* No verdict without a history: what the streams of an id have to do with *)
(* the runs it was judged by.  The judgments are a parameter, so that the  *)
(* lemmas speak of those before and those after a step alike.              *)

TrustedIn(j, id, n) == {m \in 1 .. n : j[m].id = id /\ Trusted(j[m].result)}
RunsIn(j, id)       == TrustedIn(j, id, Len(j))
HotIn(j, S)         == {m \in S : j[m].result.isHotspotRun}

\* If every run came to x, the sums are those of as many x.
Uniform(j, stream, S) ==
  \A x \in Nat : (\A m \in S : j[m].result.meanThroughput = x) =>
    stream.sum = stream.count * x /\ stream.sumSq = stream.count * (x * x)

Fits(j, entry, S) ==
  /\ entry.throughput.count = Cardinality(S)
  /\ Uniform(j, entry.throughput, S)
  /\ entry.readDivergenceRatio.count = Cardinality(HotIn(j, S))
  /\ entry.writeDivergenceRatio.count = Cardinality(HotIn(j, S))

\* What an outcome asks of the runs before it.
Grounded(j, outcome, earlier) ==
  /\ outcome = "Regressed" =>
       /\ Cardinality(earlier) >= MinHistoryFloor
       /\ \E a, b \in earlier : j[a].result.meanThroughput # j[b].result.meanThroughput
  /\ outcome = "Degraded" => Cardinality(HotIn(j, earlier)) >= MinHistoryFloor

AllGrounded(j) == \A k \in DOMAIN j : Grounded(j, j[k].outcome, TrustedIn(j, j[k].id, k - 1))

HistoryFits(j, h) ==
  /\ j \in Seq(Judgments) /\ h \in [TestIds -> Entries]
  /\ \A id \in TestIds : Fits(j, h[id], RunsIn(j, id))
  /\ AllGrounded(j)

SInv == HistoryFits(judged, history)

LEMMA GroundedIsNeed == AllGrounded(judged) <=> VerdictNeedsHistory
BY DEF AllGrounded, Grounded, VerdictNeedsHistory, TrustedIn, TrustedBefore, HotIn

LEMMA UpdateType ==
  ASSUME NEW w \in WelfordStates, NEW t \in Nat
  PROVE  Update(w, t) \in WelfordStates /\ Update(w, t).count = w.count + 1
         /\ Update(w, t).sum = w.sum + t /\ Update(w, t).sumSq = w.sumSq + t * t
BY DEF WelfordStates, Update

LEMMA RunsFinite ==
  ASSUME NEW j \in Seq(Judgments), NEW id
  PROVE  /\ RunsIn(j, id) \subseteq 1 .. Len(j)
         /\ IsFiniteSet(RunsIn(j, id)) /\ IsFiniteSet(HotIn(j, RunsIn(j, id)))
<1>1. IsFiniteSet(1 .. Len(j))
  BY FS_Interval
<1>2. RunsIn(j, id) \subseteq 1 .. Len(j) /\ HotIn(j, RunsIn(j, id)) \subseteq 1 .. Len(j)
  BY DEF RunsIn, TrustedIn, HotIn
<1> QED
  BY <1>1, <1>2, FS_Subset

LEMMA SInit == AnalyzerInit => SInv
<1> SUFFICES ASSUME AnalyzerInit PROVE SInv
  OBVIOUS
<1>1. judged = <<>> /\ judged \in Seq(Judgments) /\ Len(judged) = 0 /\ DOMAIN judged = {}
  BY DEF AnalyzerInit
<1>2. EmptyWelford \in WelfordStates /\ EmptyWelford.count = 0 /\ EmptyWelford.sum = 0
      /\ EmptyWelford.sumSq = 0
  BY DEF EmptyWelford, WelfordStates
<1>3. /\ EmptyEntry \in Entries /\ EmptyEntry.throughput = EmptyWelford
      /\ EmptyEntry.readDivergenceRatio = EmptyWelford
      /\ EmptyEntry.writeDivergenceRatio = EmptyWelford
  BY <1>2 DEF EmptyEntry, Entries
<1>4. history \in [TestIds -> Entries] /\ \A id \in TestIds : history[id] = EmptyEntry
  BY <1>3 DEF AnalyzerInit
<1>5. ASSUME NEW id \in TestIds PROVE Fits(judged, history[id], RunsIn(judged, id))
  <2>1. RunsIn(judged, id) = {} /\ HotIn(judged, RunsIn(judged, id)) = {}
    BY <1>1 DEF RunsIn, TrustedIn, HotIn
  <2>2. Uniform(judged, EmptyWelford, RunsIn(judged, id))
    BY <1>2 DEF Uniform
  <2> QED
    BY <1>2, <1>3, <1>4, <2>1, <2>2, FS_EmptySet DEF Fits
<1> QED
  BY <1>1, <1>4, <1>5 DEF SInv, HistoryFits, AllGrounded

\* A stream with some spread has seen two values.
LEMMA SpreadNeedsTwo ==
  ASSUME NEW j \in Seq(Judgments), NEW S \in SUBSET DOMAIN j, NEW w \in WelfordStates,
         w.count = Cardinality(S), Uniform(j, w, S), HasSpread(w)
  PROVE  \E a, b \in S : j[a].result.meanThroughput # j[b].result.meanThroughput
<1> SUFFICES ASSUME \A a, b \in S : j[a].result.meanThroughput = j[b].result.meanThroughput
             PROVE FALSE
  OBVIOUS
<1>1. S # {}
  <2>1. w.count >= 2
    BY DEF HasSpread
  <2>2. ASSUME S = {} PROVE w.count = 0
    BY <2>2, FS_EmptySet
  <2>3. ~(w.count = 0 /\ w.count >= 2)
    OBVIOUS
  <2> QED
    BY <2>1, <2>2, <2>3
<1>2. PICK a \in S : TRUE
  BY <1>1
<1> DEFINE x == j[a].result.meanThroughput
<1>3. x \in Nat
  <2>1. j[a] \in Judgments
    BY <1>2
  <2> QED
    BY <2>1, ResultsType DEF Judgments
<1>4. w.sum = w.count * x /\ w.sumSq = w.count * (x * x)
  BY <1>3 DEF Uniform
<1>5. w.count \in Nat
  BY DEF WelfordStates
<1> HIDE DEF x
<1>6. w.count * (w.count * (x * x)) = (w.count * x) * (w.count * x)
  BY <1>3, <1>5
<1>7. w.count * w.sumSq - w.sum * w.sum = 0
  BY <1>3, <1>4, <1>5, <1>6
<1> QED
  BY <1>7 DEF HasSpread, Scatter

\* The outcome of a result is grounded in the runs its id's streams were fed with.
LEMMA OutcomeGrounded ==
  ASSUME NEW j \in Seq(Judgments), NEW entry \in Entries, NEW S \in SUBSET DOMAIN j,
         Fits(j, entry, S), NEW result
  PROVE  Grounded(j, Outcome(entry, result), S)
<1>1. ASSUME Outcome(entry, result) = "Regressed"
      PROVE  /\ Cardinality(S) >= MinHistoryFloor
             /\ \E a, b \in S : j[a].result.meanThroughput # j[b].result.meanThroughput
  <2>1. Beyond(entry.throughput, result.meanThroughput)
    BY <1>1 DEF Outcome
  <2>2. entry.throughput \in WelfordStates /\ HasSpread(entry.throughput)
    BY <2>1 DEF Entries, Beyond
  <2> QED
    BY <2>1, <2>2, SpreadNeedsTwo DEF Fits, Beyond
<1>2. ASSUME Outcome(entry, result) = "Degraded"
      PROVE  Cardinality(HotIn(j, S)) >= MinHistoryFloor
  <2>1. RatioDegraded(entry, result)
    BY <1>2 DEF Outcome
  <2> QED
    BY <2>1 DEF RatioDegraded, Beyond, Fits
<1> QED
  BY <1>1, <1>2 DEF Grounded

\* What a judgment more leaves alone.
LEMMA EarlierStay ==
  ASSUME NEW j \in Seq(Judgments), NEW e \in Judgments, NEW id, NEW m \in 0 .. Len(j)
  PROVE  /\ TrustedIn(Append(j, e), id, m) = TrustedIn(j, id, m)
         /\ TrustedIn(j, id, m) \subseteq 1 .. Len(j)
<1>1. \A k \in 1 .. m : Append(j, e)[k] = j[k] /\ k \in 1 .. Len(j)
  OBVIOUS
<1> QED
  BY <1>1 DEF TrustedIn

LEMMA SameOver ==
  ASSUME NEW j \in Seq(Judgments), NEW e \in Judgments, NEW S \in SUBSET (1 .. Len(j))
  PROVE  /\ HotIn(Append(j, e), S) = HotIn(j, S)
         /\ \A w : Uniform(Append(j, e), w, S) <=> Uniform(j, w, S)
         /\ \A outcome : Grounded(Append(j, e), outcome, S) <=> Grounded(j, outcome, S)
<1>1. \A k \in S : Append(j, e)[k] = j[k]
  OBVIOUS
<1>2. HotIn(Append(j, e), S) = HotIn(j, S)
  BY <1>1 DEF HotIn
<1>3. \A w : Uniform(Append(j, e), w, S) <=> Uniform(j, w, S)
  BY <1>1 DEF Uniform
<1>4. (\E a, b \in S : Append(j, e)[a].result.meanThroughput # Append(j, e)[b].result.meanThroughput)
        <=> (\E a, b \in S : j[a].result.meanThroughput # j[b].result.meanThroughput)
  BY <1>1
<1> QED
  BY <1>2, <1>3, <1>4 DEF Grounded

LEMMA RunsAfter ==
  ASSUME NEW j \in Seq(Judgments), NEW e \in Judgments, NEW id
  PROVE  RunsIn(Append(j, e), id) = IF e.id = id /\ Trusted(e.result)
                                    THEN RunsIn(j, id) \cup {Len(j) + 1} ELSE RunsIn(j, id)
<1>1. /\ Len(Append(j, e)) = Len(j) + 1 /\ 1 .. Len(j) + 1 = 1 .. Len(j) \cup {Len(j) + 1}
      /\ Append(j, e)[Len(j) + 1] = e /\ \A k \in 1 .. Len(j) : Append(j, e)[k] = j[k]
  OBVIOUS
<1> QED
  BY <1>1 DEF RunsIn, TrustedIn

\* One judgment more, made against streams that fit, is grounded like the ones before it.
LEMMA AppendGrounded ==
  ASSUME NEW j, NEW h, HistoryFits(j, h), NEW e \in Judgments,
         e.outcome = Outcome(h[e.id], e.result)
  PROVE  AllGrounded(Append(j, e))
<1> DEFINE n == Len(j) + 1
<1>1. /\ j \in Seq(Judgments) /\ Len(j) \in Nat /\ DOMAIN j = 1 .. Len(j)
      /\ DOMAIN Append(j, e) = 1 .. n /\ Append(j, e)[n] = e
      /\ \A k \in 1 .. Len(j) : Append(j, e)[k] = j[k]
      /\ e.id \in TestIds /\ h[e.id] \in Entries
  BY DEF HistoryFits, Judgments
<1>2. ASSUME NEW k \in 1 .. Len(j)
      PROVE  Grounded(Append(j, e), j[k].outcome, TrustedIn(Append(j, e), j[k].id, k - 1))
  <2>1. Grounded(j, j[k].outcome, TrustedIn(j, j[k].id, k - 1))
    BY <1>1 DEF HistoryFits, AllGrounded
  <2>2. k - 1 \in 0 .. Len(j)
    BY <1>1
  <2>3. /\ TrustedIn(Append(j, e), j[k].id, k - 1) = TrustedIn(j, j[k].id, k - 1)
        /\ TrustedIn(j, j[k].id, k - 1) \in SUBSET (1 .. Len(j))
    BY <1>1, <2>2, EarlierStay
  <2> QED
    BY <1>1, <2>1, <2>3, SameOver
<1>3. Grounded(Append(j, e), e.outcome, TrustedIn(Append(j, e), e.id, n - 1))
  <2>1. n - 1 = Len(j) /\ Len(j) \in 0 .. Len(j)
    BY <1>1
  <2>2. TrustedIn(Append(j, e), e.id, n - 1) = RunsIn(j, e.id) /\ RunsIn(j, e.id) \in SUBSET (1 .. Len(j))
    BY <1>1, <2>1, EarlierStay DEF RunsIn
  <2>3. Fits(j, h[e.id], RunsIn(j, e.id))
    BY <1>1 DEF HistoryFits
  <2>4. Grounded(j, e.outcome, RunsIn(j, e.id))
    BY <1>1, <2>2, <2>3, OutcomeGrounded
  <2> QED
    BY <1>1, <2>2, <2>4, SameOver
<1>4. ASSUME NEW k \in 1 .. n
      PROVE  Grounded(Append(j, e), Append(j, e)[k].outcome,
                      TrustedIn(Append(j, e), Append(j, e)[k].id, k - 1))
  <2>1. k \in 1 .. Len(j) \/ k = n
    BY <1>1
  <2> QED
    BY <1>1, <1>2, <1>3, <2>1
<1> QED
  BY <1>1, <1>4 DEF AllGrounded

\* An entry that is not fed still fits.
LEMMA FitsUnfed ==
  ASSUME NEW j, NEW h, HistoryFits(j, h), NEW e \in Judgments, NEW id \in TestIds,
         ~(e.id = id /\ Trusted(e.result))
  PROVE  Fits(Append(j, e), h[id], RunsIn(Append(j, e), id))
<1>1. j \in Seq(Judgments) /\ Fits(j, h[id], RunsIn(j, id))
  BY DEF HistoryFits
<1>2. RunsIn(Append(j, e), id) = RunsIn(j, id) /\ RunsIn(j, id) \in SUBSET (1 .. Len(j))
  BY <1>1, RunsAfter, RunsFinite
<1> QED
  BY <1>1, <1>2, SameOver DEF Fits

LEMMA FedStreams ==
  ASSUME NEW entry \in Entries, NEW result \in Results
  PROVE  /\ Fed(entry, result) \in Entries
         /\ Fed(entry, result).throughput = Update(entry.throughput, result.meanThroughput)
         /\ Fed(entry, result).readDivergenceRatio.count =
              entry.readDivergenceRatio.count + (IF result.isHotspotRun THEN 1 ELSE 0)
         /\ Fed(entry, result).writeDivergenceRatio.count =
              entry.writeDivergenceRatio.count + (IF result.isHotspotRun THEN 1 ELSE 0)
<1>1. /\ entry.throughput \in WelfordStates /\ entry.readDivergenceRatio \in WelfordStates
      /\ entry.writeDivergenceRatio \in WelfordStates
      /\ entry.readDivergenceRatio.count \in Nat /\ entry.writeDivergenceRatio.count \in Nat
  BY DEF Entries, WelfordStates
<1>2. /\ Update(entry.throughput, result.meanThroughput) \in WelfordStates
      /\ Update(entry.readDivergenceRatio, result.readDivergenceRatio) \in WelfordStates
      /\ Update(entry.writeDivergenceRatio, result.writeDivergenceRatio) \in WelfordStates
      /\ Update(entry.readDivergenceRatio, result.readDivergenceRatio).count
           = entry.readDivergenceRatio.count + 1
      /\ Update(entry.writeDivergenceRatio, result.writeDivergenceRatio).count
           = entry.writeDivergenceRatio.count + 1
  BY <1>1, ResultsType, UpdateType
<1>3. CASE result.isHotspotRun
  BY <1>1, <1>2, <1>3 DEF Fed, Entries
<1>4. CASE ~result.isHotspotRun
  BY <1>1, <1>2, <1>4 DEF Fed, Entries
<1> QED
  BY <1>3, <1>4

LEMMA UniformFed ==
  ASSUME NEW j, NEW w \in WelfordStates, NEW t \in Nat, NEW S, NEW n,
         Uniform(j, w, S), j[n].result.meanThroughput = t
  PROVE  Uniform(j, Update(w, t), S \cup {n})
<1> SUFFICES ASSUME NEW x \in Nat, \A m \in S \cup {n} : j[m].result.meanThroughput = x
             PROVE  /\ Update(w, t).sum = Update(w, t).count * x
                    /\ Update(w, t).sumSq = Update(w, t).count * (x * x)
  BY DEF Uniform
<1>1. t = x
  OBVIOUS
<1>2. w.sum = w.count * x /\ w.sumSq = w.count * (x * x)
  BY DEF Uniform
<1>3. w.count \in Nat /\ x * x \in Nat
  BY DEF WelfordStates
<1>4. (w.count + 1) * x = w.count * x + x /\ (w.count + 1) * (x * x) = w.count * (x * x) + x * x
  BY <1>3
<1> QED
  BY <1>1, <1>2, <1>4, UpdateType

\* The entry that is fed fits the runs with the new one among them.
LEMMA FitsFed ==
  ASSUME NEW j, NEW h, HistoryFits(j, h), NEW e \in Judgments, Trusted(e.result)
  PROVE  Fits(Append(j, e), Fed(h[e.id], e.result), RunsIn(Append(j, e), e.id))
<1> DEFINE n == Len(j) + 1
           S == RunsIn(j, e.id)
           H == HotIn(j, S)
           w == h[e.id].throughput
<1>1. /\ j \in Seq(Judgments) /\ Len(j) \in Nat /\ Append(j, e)[n] = e /\ e.id \in TestIds
      /\ e.result \in Results /\ h[e.id] \in Entries /\ w \in WelfordStates
      /\ Fits(j, h[e.id], S)
  BY DEF HistoryFits, Judgments, Entries
<1>2. RunsIn(Append(j, e), e.id) = S \cup {n}
  BY <1>1, RunsAfter
<1>3. S \in SUBSET (1 .. Len(j)) /\ IsFiniteSet(S) /\ IsFiniteSet(H)
  BY <1>1, RunsFinite
<1>4. n \notin S /\ n \notin H
  BY <1>1, <1>3 DEF HotIn
<1>5. HotIn(Append(j, e), S \cup {n}) = IF e.result.isHotspotRun THEN H \cup {n} ELSE H
  <2>1. HotIn(Append(j, e), S) = H
    BY <1>1, <1>3, SameOver
  <2>2. HotIn(Append(j, e), S \cup {n})
          = HotIn(Append(j, e), S) \cup {m \in {n} : Append(j, e)[m].result.isHotspotRun}
    BY DEF HotIn
  <2> QED
    BY <1>1, <2>1, <2>2
<1>6. /\ Cardinality(S \cup {n}) = Cardinality(S) + 1
      /\ Cardinality(H \cup {n}) = Cardinality(H) + 1 /\ Cardinality(H) \in Nat
  BY <1>3, <1>4, FS_AddElement, FS_CardinalityType
<1>7. Uniform(Append(j, e), Update(w, e.result.meanThroughput), S \cup {n})
  <2>1. Uniform(Append(j, e), w, S)
    BY <1>1, <1>3, SameOver DEF Fits
  <2> QED
    BY <1>1, <2>1, ResultsType, UniformFed
<1>8. Fits(j, h[e.id], S)
  BY <1>1
<1>9. Update(w, e.result.meanThroughput).count = w.count + 1
  BY <1>1, ResultsType, UpdateType
<1>10. /\ Fed(h[e.id], e.result).throughput = Update(w, e.result.meanThroughput)
       /\ Fed(h[e.id], e.result).throughput.count = Cardinality(S \cup {n})
  BY <1>1, <1>6, <1>8, <1>9, FedStreams DEF Fits
<1>11. /\ Fed(h[e.id], e.result).readDivergenceRatio.count
            = Cardinality(HotIn(Append(j, e), S \cup {n}))
       /\ Fed(h[e.id], e.result).writeDivergenceRatio.count
            = Cardinality(HotIn(Append(j, e), S \cup {n}))
  BY <1>1, <1>5, <1>6, <1>8, FedStreams DEF Fits
<1> QED
  BY <1>2, <1>7, <1>10, <1>11 DEF Fits

LEMMA JudgeAppends ==
  ASSUME SInv, NEW id \in TestIds, NEW result \in Results, Judge(id, result)
  PROVE  \E e \in Judgments : /\ e.id = id /\ e.result = result
                              /\ e.outcome = Outcome(history[id], result)
                              /\ judged' = Append(judged, e) /\ judged' \in Seq(Judgments)
<1> DEFINE e == [id |-> id, result |-> result, outcome |-> Outcome(history[id], result)]
<1>1. e \in Judgments /\ judged' = Append(judged, e)
  BY OutcomeType DEF Judgments, Judge
<1>2. e.id = id /\ e.result = result /\ e.outcome = Outcome(history[id], result)
  OBVIOUS
<1> HIDE DEF e
<1>3. Append(judged, e) \in Seq(Judgments)
  BY <1>1 DEF SInv, HistoryFits
<1> QED
  BY <1>1, <1>2, <1>3

LEMMA EvaluateKeeps ==
  ASSUME SInv, NEW id \in TestIds, NEW result \in Results, Evaluate(id, result)
  PROVE  SInv'
<1>1. Judge(id, result) /\ HistoryFits(judged, history) /\ history \in [TestIds -> Entries]
  BY DEF Evaluate, EvaluateFailed, EvaluateTrusted, SInv, HistoryFits
<1>2. PICK e \in Judgments : /\ e.id = id /\ e.result = result
                             /\ e.outcome = Outcome(history[id], result)
                             /\ judged' = Append(judged, e) /\ judged' \in Seq(Judgments)
  BY <1>1, JudgeAppends
<1>3. AllGrounded(Append(judged, e))
  BY <1>1, <1>2, AppendGrounded
<1>4. CASE EvaluateFailed(id, result)
  <2>1. history' = history /\ ~Trusted(e.result)
    BY <1>2, <1>4 DEF EvaluateFailed
  <2>2. \A i \in TestIds : Fits(Append(judged, e), history[i], RunsIn(Append(judged, e), i))
    BY <1>1, <2>1, FitsUnfed
  <2> QED
    BY <1>1, <1>2, <1>3, <2>1, <2>2 DEF SInv, HistoryFits
<1>5. CASE EvaluateTrusted(id, result)
  <2>1. history' = [history EXCEPT ![id] = Fed(history[id], result)] /\ Trusted(e.result)
    BY <1>2, <1>5 DEF EvaluateTrusted
  <2>2. Fed(history[id], result) \in Entries
    BY <1>1, FedStreams
  <2>3. /\ history' \in [TestIds -> Entries] /\ history'[id] = Fed(history[id], result)
        /\ \A i \in TestIds \ {id} : history'[i] = history[i]
    BY <1>1, <2>1, <2>2
  <2>4. \A i \in TestIds \ {id} :
          Fits(Append(judged, e), history[i], RunsIn(Append(judged, e), i))
    BY <1>1, <1>2, FitsUnfed
  <2>5. Fits(Append(judged, e), Fed(history[id], result), RunsIn(Append(judged, e), id))
    BY <1>1, <1>2, <2>1, FitsFed
  <2>6. \A i \in TestIds : Fits(Append(judged, e), history'[i], RunsIn(Append(judged, e), i))
    BY <2>3, <2>4, <2>5
  <2> QED
    BY <1>2, <1>3, <2>3, <2>6 DEF SInv, HistoryFits
<1> QED
  BY <1>4, <1>5 DEF Evaluate

\* A test is called regressed or degraded only against MinHistoryFloor earlier trusted runs
\* of its own (RegressionAnalyzer::evaluate).
THEOREM VerdictHasHistory == AnalyzerSpec => []VerdictNeedsHistory
<1>1. SInv /\ [AnalyzerNext]_analyzer => SInv'
  <2> SUFFICES ASSUME SInv, [AnalyzerNext]_analyzer PROVE SInv'
    OBVIOUS
  <2>1. CASE AnalyzerNext
    BY <2>1, EvaluateKeeps DEF AnalyzerNext
  <2>2. CASE UNCHANGED analyzer
    BY <2>2 DEF analyzer, SInv
  <2> QED
    BY <2>1, <2>2
<1>2. SInv => VerdictNeedsHistory
  BY GroundedIsNeed DEF SInv, HistoryFits
<1> QED
  BY <1>1, <1>2, SInit, PTL DEF AnalyzerSpec

-----------------------------------------------------------------------------
(* The history of a test is the statistics of its trusted runs.  SumOver is *)
(* a recursive function: that there is one, and that sums which add the     *)
(* same values agree, are inductions over the places of the sequence.       *)

\* A set of natural numbers has a least element.
LEMMA LeastNatural ==
  ASSUME NEW T, T \subseteq Nat, T # {}
  PROVE  \E n \in T : \A m \in T : n <= m
<1> DEFINE R == {ss \in Nat \X Nat : ss[1] < ss[2]}
<1>1. IsWellFoundedOn(R, Nat)
  BY NatLessThanWellFounded DEF OpToRel
<1>2. PICK n \in T : \A m \in T : ~ (<<m, n>> \in R)
  BY <1>1, WFMin
<1>3. \A m \in T : ~(m < n)
  BY <1>2
<1> QED
  BY <1>3

\* g adds up the values at the places of S, up to each of the first n places.
Adds(S, values, n, g) ==
  g = [k \in 0 .. n |-> IF k = 0 THEN 0 ELSE g[k - 1] + (IF k \in S THEN values[k] ELSE 0)]

LEMMA SumIsDefined ==
  ASSUME NEW S, NEW values, NEW n \in Nat
  PROVE  \E g : Adds(S, values, n, g)
<1> DEFINE Without == {m \in Nat : ~ \E g : Adds(S, values, m, g)}
<1>1. SUFFICES ASSUME Without # {} PROVE FALSE
  OBVIOUS
<1>2. PICK m \in Without : \A l \in Without : m <= l
  BY <1>1, LeastNatural
<1>3. m # 0
  <2> DEFINE zero == [k \in 0 .. 0 |-> 0]
  <2>1. Adds(S, values, 0, zero)
    BY DEF Adds
  <2> QED
    BY <2>1
<1>4. m - 1 \in Nat /\ m - 1 \notin Without
  BY <1>2, <1>3
<1>5. PICK g : Adds(S, values, m - 1, g)
  BY <1>4
<1> DEFINE more(k) == IF k \in S THEN values[k] ELSE 0
           h == [k \in 0 .. m |-> IF k = m THEN g[m - 1] + more(m) ELSE g[k]]
<1>6. Adds(S, values, m, h)
  <2>1. ASSUME NEW k \in 0 .. m PROVE h[k] = IF k = 0 THEN 0 ELSE h[k - 1] + more(k)
    BY <1>3, <1>4, <1>5 DEF Adds
  <2> QED
    BY <2>1 DEF Adds
<1> QED
  BY <1>6

SameSummands(S, v, T, u, n) == \A k \in 1 .. n : (k \in S <=> k \in T) /\ v[k] = u[k]

\* Sums that add the same values agree.
LEMMA SumsAgree ==
  ASSUME NEW S, NEW v, NEW g, NEW T, NEW u, NEW h, NEW i \in Nat, NEW j \in Nat, NEW n \in Nat,
         n <= i, n <= j, Adds(S, v, i, g), Adds(T, u, j, h), SameSummands(S, v, T, u, n)
  PROVE  \A k \in 0 .. n : g[k] = h[k]
<1> DEFINE Differ == {k \in 0 .. n : g[k] # h[k]}
<1>1. SUFFICES ASSUME Differ # {} PROVE FALSE
  OBVIOUS
<1>2. PICK k \in Differ : \A l \in Differ : k <= l
  <2>1. Differ \subseteq Nat
    OBVIOUS
  <2> QED
    BY <1>1, <2>1, LeastNatural
<1>3. /\ k \in 0 .. i /\ k \in 0 .. j
      /\ g[k] = (IF k = 0 THEN 0 ELSE g[k - 1] + (IF k \in S THEN v[k] ELSE 0))
      /\ h[k] = (IF k = 0 THEN 0 ELSE h[k - 1] + (IF k \in T THEN u[k] ELSE 0))
  BY <1>2 DEF Adds
<1>4. k # 0
  BY <1>2, <1>3
<1>5. g[k - 1] = h[k - 1]
  <2>1. k - 1 \in 0 .. n /\ ~(k <= k - 1)
    BY <1>4
  <2> QED
    BY <1>2, <2>1
<1>6. k \in 1 .. n
  BY <1>4
<1>7. (IF k \in S THEN v[k] ELSE 0) = (IF k \in T THEN u[k] ELSE 0)
  BY <1>6 DEF SameSummands
<1> QED
  BY <1>2, <1>3, <1>4, <1>5, <1>7

LEMMA SumIsSome ==
  ASSUME NEW S, NEW values, Len(values) \in Nat
  PROVE  \E g : Adds(S, values, Len(values), g) /\ SumOver(S, values) = g[Len(values)]
<1> DEFINE f == CHOOSE g : Adds(S, values, Len(values), g)
<1>1. SumOver(S, values) = f[Len(values)]
  BY DEF SumOver, Adds
<1>2. Adds(S, values, Len(values), f)
  BY SumIsDefined
<1> QED
  BY <1>1, <1>2

LEMMA SumIsNatural ==
  ASSUME NEW S, NEW v \in Seq(Nat)
  PROVE  SumOver(S, v) \in Nat
<1> DEFINE n == Len(v)
<1>1. n \in Nat /\ \A k \in 1 .. n : v[k] \in Nat
  OBVIOUS
<1>2. PICK g : Adds(S, v, n, g) /\ SumOver(S, v) = g[n]
  BY <1>1, SumIsSome
<1> HIDE DEF n
<1> DEFINE Odd == {k \in 0 .. n : g[k] \notin Nat}
<1>3. SUFFICES ASSUME Odd # {} PROVE FALSE
  BY <1>1, <1>2
<1>4. PICK k \in Odd : \A l \in Odd : k <= l
  <2>1. Odd \subseteq Nat
    OBVIOUS
  <2> QED
    BY <1>3, <2>1, LeastNatural
<1>5. g[k] = (IF k = 0 THEN 0 ELSE g[k - 1] + (IF k \in S THEN v[k] ELSE 0))
  BY <1>2 DEF Adds
<1>6. k # 0 /\ k \in 1 .. n
  BY <1>4, <1>5
<1>7. g[k - 1] \in Nat
  <2>1. k - 1 \in 0 .. n /\ ~(k <= k - 1)
    BY <1>1, <1>6
  <2> QED
    BY <1>4, <2>1
<1> QED
  BY <1>1, <1>4, <1>5, <1>6, <1>7

\* One value more.
LEMMA SumOfAppend ==
  ASSUME NEW S, NEW v \in Seq(Nat), NEW t \in Nat, NEW T,
         \A k \in 1 .. Len(v) : k \in S <=> k \in T
  PROVE  SumOver(T, Append(v, t))
           = SumOver(S, v) + (IF Len(v) + 1 \in T THEN t ELSE 0)
<1> DEFINE n == Len(v)
           u == Append(v, t)
<1>1. n \in Nat /\ Len(u) = n + 1 /\ u[n + 1] = t /\ \A k \in 1 .. n : v[k] = u[k]
  OBVIOUS
<1> HIDE DEF u
<1>2. PICK g : Adds(S, v, n, g) /\ SumOver(S, v) = g[n]
  BY <1>1, SumIsSome
<1>3. PICK h : Adds(T, u, n + 1, h) /\ SumOver(T, u) = h[n + 1]
  BY <1>1, SumIsSome
<1> HIDE DEF n
<1>4. SameSummands(S, v, T, u, n)
  BY <1>1 DEF n, SameSummands
<1>5. g[n] = h[n]
  <2>1. n \in Nat /\ n + 1 \in Nat /\ n <= n /\ n <= n + 1 /\ n \in 0 .. n
    BY <1>1
  <2>2. Adds(S, v, n, g) /\ Adds(T, u, n + 1, h)
    BY <1>2, <1>3
  <2>3. \A k \in 0 .. n : g[k] = h[k]
    BY <1>4, <2>1, <2>2, SumsAgree
  <2> QED
    BY <2>1, <2>3
<1>6. h[n + 1] = h[n] + (IF n + 1 \in T THEN u[n + 1] ELSE 0)
  <2>1. n + 1 \in 0 .. n + 1 /\ n + 1 # 0 /\ (n + 1) - 1 = n
    BY <1>1
  <2> QED
    BY <1>3, <2>1 DEF Adds
<1> QED
  BY <1>1, <1>2, <1>3, <1>5, <1>6 DEF n, u

Squares(v) == [m \in DOMAIN v |-> v[m] * v[m]]

LEMMA SquaresOfAppend ==
  ASSUME NEW v \in Seq(Nat), NEW t \in Nat
  PROVE  /\ Squares(v) \in Seq(Nat) /\ Len(Squares(v)) = Len(v) /\ t * t \in Nat
         /\ Squares(Append(v, t)) = Append(Squares(v), t * t)
<1>1. /\ Len(v) \in Nat /\ DOMAIN v = 1 .. Len(v) /\ \A k \in 1 .. Len(v) : v[k] \in Nat
      /\ DOMAIN Append(v, t) = 1 .. Len(v) + 1 /\ Append(v, t)[Len(v) + 1] = t
      /\ \A k \in 1 .. Len(v) : Append(v, t)[k] = v[k]
  OBVIOUS
<1>2. t * t \in Nat /\ \A k \in 1 .. Len(v) : v[k] * v[k] \in Nat
  BY <1>1
<1>3. /\ Squares(v) \in Seq(Nat) /\ Len(Squares(v)) = Len(v)
      /\ \A k \in 1 .. Len(v) : Squares(v)[k] = v[k] * v[k]
  BY <1>1, <1>2 DEF Squares
<1>4. /\ DOMAIN Squares(Append(v, t)) = 1 .. Len(v) + 1
      /\ Squares(Append(v, t))[Len(v) + 1] = t * t
      /\ \A k \in 1 .. Len(v) : Squares(Append(v, t))[k] = Squares(v)[k]
  BY <1>1, <1>3 DEF Squares
<1>5. /\ DOMAIN Append(Squares(v), t * t) = 1 .. Len(v) + 1
      /\ Append(Squares(v), t * t)[Len(v) + 1] = t * t
      /\ \A k \in 1 .. Len(v) : Append(Squares(v), t * t)[k] = Squares(v)[k]
  BY <1>2, <1>3
<1>6. \A k \in 1 .. Len(v) + 1 : Squares(Append(v, t))[k] = Append(Squares(v), t * t)[k]
  BY <1>1, <1>4, <1>5
<1>7. Squares(Append(v, t)) = [k \in 1 .. Len(v) + 1 |-> Squares(Append(v, t))[k]]
  BY <1>4 DEF Squares
<1>8. Append(Squares(v), t * t) = [k \in 1 .. Len(v) + 1 |-> Append(Squares(v), t * t)[k]]
  BY <1>2, <1>3, <1>5
<1> QED
  BY <1>2, <1>3, <1>6, <1>7, <1>8

\* A value that is fed, and one that is not.
LEMMA StatisticsOfAppend ==
  ASSUME NEW v \in Seq(Nat), NEW t \in Nat, NEW S \in SUBSET (1 .. Len(v))
  PROVE  /\ Statistics(S \cup {Len(v) + 1}, Append(v, t)) = Update(Statistics(S, v), t)
         /\ Statistics(S, Append(v, t)) = Statistics(S, v)
<1> DEFINE n == Len(v) + 1
<1>1. n \notin S /\ \A k \in 1 .. Len(v) : k \in S <=> k \in S \cup {n}
  OBVIOUS
<1>2. Cardinality(S \cup {n}) = Cardinality(S) + 1
  <2>1. IsFiniteSet(1 .. Len(v)) /\ IsFiniteSet(S)
    <3>1. 1 \in Int /\ Len(v) \in Int
      OBVIOUS
    <3>2. IsFiniteSet(1 .. Len(v))
      BY <3>1, FS_Interval
    <3> QED
      BY <3>2, FS_Subset
  <2> QED
    BY <1>1, <2>1, FS_AddElement
<1>3. /\ SumOver(S \cup {n}, Append(v, t)) = SumOver(S, v) + t
      /\ SumOver(S, Append(v, t)) = SumOver(S, v) + 0
  BY <1>1, SumOfAppend
<1>4. /\ SumOver(S \cup {n}, Append(Squares(v), t * t)) = SumOver(S, Squares(v)) + t * t
      /\ SumOver(S, Append(Squares(v), t * t)) = SumOver(S, Squares(v)) + 0
  <2> DEFINE q == Squares(v)
  <2>1. q \in Seq(Nat) /\ Len(q) = Len(v) /\ t * t \in Nat
    BY SquaresOfAppend
  <2> HIDE DEF q
  <2>2. /\ SumOver(S \cup {n}, Append(q, t * t))
             = SumOver(S, q) + (IF Len(q) + 1 \in S \cup {n} THEN t * t ELSE 0)
        /\ SumOver(S, Append(q, t * t))
             = SumOver(S, q) + (IF Len(q) + 1 \in S THEN t * t ELSE 0)
    <3>1. /\ \A k \in 1 .. Len(q) : k \in S <=> k \in S \cup {n}
          /\ \A k \in 1 .. Len(q) : k \in S <=> k \in S
      BY <1>1, <2>1
    <3> QED
      BY <2>1, <3>1, SumOfAppend
  <2> QED
    BY <1>1, <2>1, <2>2 DEF q
<1>5. SumOver(S, v) \in Nat /\ SumOver(S, Squares(v)) \in Nat
  BY SumIsNatural, SquaresOfAppend
<1>6. \A T, u : Statistics(T, u) = [count |-> Cardinality(T), sum |-> SumOver(T, u),
                                   sumSq |-> SumOver(T, Squares(u))]
  BY DEF Statistics, Squares
<1>7. Squares(Append(v, t)) = Append(Squares(v), t * t)
  BY SquaresOfAppend
<1>8. /\ Statistics(S, v).count = Cardinality(S) /\ Statistics(S, v).sum = SumOver(S, v)
      /\ Statistics(S, v).sumSq = SumOver(S, Squares(v))
  BY <1>6
<1>9. Update(Statistics(S, v), t) = [count |-> Cardinality(S) + 1, sum |-> SumOver(S, v) + t,
                                     sumSq |-> SumOver(S, Squares(v)) + t * t]
  BY <1>8 DEF Update
<1>10. Statistics(S \cup {n}, Append(v, t)) = Update(Statistics(S, v), t)
  BY <1>2, <1>3, <1>4, <1>6, <1>7, <1>9
<1>11. Statistics(S, Append(v, t)) = Statistics(S, v)
  <2>1. SumOver(S, Append(v, t)) = SumOver(S, v)
    BY <1>3, <1>5
  <2>2. SumOver(S, Append(Squares(v), t * t)) = SumOver(S, Squares(v))
    BY <1>4, <1>5
  <2> QED
    BY <1>6, <1>7, <2>1, <2>2
<1> QED
  BY <1>10, <1>11

\* The values the judgments were made of, and the history they should have left.
Throughputs(j) == [m \in DOMAIN j |-> j[m].result.meanThroughput]
Reads(j)       == [m \in DOMAIN j |-> j[m].result.readDivergenceRatio]
Writes(j)      == [m \in DOMAIN j |-> j[m].result.writeDivergenceRatio]

EntryOf(j, S) ==
  [throughput |-> Statistics(S, Throughputs(j)),
   readDivergenceRatio |-> Statistics(HotIn(j, S), Reads(j)),
   writeDivergenceRatio |-> Statistics(HotIn(j, S), Writes(j))]

Remembers(j, h) == \A id \in TestIds : h[id] = EntryOf(j, RunsIn(j, id))

HInv == SInv /\ Remembers(judged, history)

LEMMA RemembersIsNeed == Remembers(judged, history) <=> HistoryIsTheTrustedRuns
<1>1. ASSUME NEW id \in TestIds
      PROVE  RunsIn(judged, id) = TrustedBefore(id, Len(judged))
  BY DEF RunsIn, TrustedIn, TrustedBefore
<1> QED
  BY <1>1 DEF Remembers, EntryOf, HotIn, Throughputs, Reads, Writes, HistoryIsTheTrustedRuns

\* The values of the judgments with one more.
LEMMA ValuesOfAppend ==
  ASSUME NEW j \in Seq(Judgments), NEW e \in Judgments
  PROVE  /\ Throughputs(j) \in Seq(Nat) /\ Len(Throughputs(j)) = Len(j)
         /\ Throughputs(Append(j, e)) = Append(Throughputs(j), e.result.meanThroughput)
         /\ Reads(j) \in Seq(Nat) /\ Len(Reads(j)) = Len(j)
         /\ Reads(Append(j, e)) = Append(Reads(j), e.result.readDivergenceRatio)
         /\ Writes(j) \in Seq(Nat) /\ Len(Writes(j)) = Len(j)
         /\ Writes(Append(j, e)) = Append(Writes(j), e.result.writeDivergenceRatio)
<1>1. /\ Len(j) \in Nat /\ DOMAIN j = 1 .. Len(j) /\ DOMAIN Append(j, e) = 1 .. Len(j) + 1
      /\ Append(j, e)[Len(j) + 1] = e /\ \A k \in 1 .. Len(j) : Append(j, e)[k] = j[k]
      /\ \A k \in 1 .. Len(j) : j[k].result \in Results
      /\ e.result \in Results
  <2>1. \A k \in 1 .. Len(j) : j[k] \in Judgments
    OBVIOUS
  <2> QED
    BY <2>1 DEF Judgments
<1>2. \A f, g, x : /\ f \in Seq(Nat) /\ Len(f) = Len(j) /\ x \in Nat
                   /\ g = [k \in 1 .. Len(j) + 1 |-> IF k = Len(j) + 1 THEN x ELSE f[k]]
                   => g = Append(f, x)
  <2> SUFFICES ASSUME NEW f \in Seq(Nat), NEW x \in Nat, Len(f) = Len(j)
               PROVE  Append(f, x)
                        = [k \in 1 .. Len(j) + 1 |-> IF k = Len(j) + 1 THEN x ELSE f[k]]
    OBVIOUS
  <2> DEFINE n == Len(f)
  <2>1. /\ n \in Nat /\ n = Len(j) /\ Append(f, x) \in Seq(Nat) /\ Len(Append(f, x)) = n + 1
        /\ Append(f, x)[n + 1] = x /\ \A k \in 1 .. n : Append(f, x)[k] = f[k]
    OBVIOUS
  <2>2. Append(f, x) = [k \in 1 .. n + 1 |-> Append(f, x)[k]]
    <3> DEFINE u == Append(f, x)
    <3>1. u \in Seq(Nat) /\ Len(u) = n + 1
      BY <2>1
    <3> HIDE DEF u, n
    <3>2. u = [k \in 1 .. Len(u) |-> u[k]]
      BY <3>1
    <3> QED
      BY <3>1, <3>2 DEF u
  <2>3. \A k \in 1 .. n + 1 : Append(f, x)[k] = IF k = n + 1 THEN x ELSE f[k]
    BY <2>1
  <2> QED
    BY <2>1, <2>2, <2>3
<1>3. /\ Throughputs(j) \in Seq(Nat) /\ Len(Throughputs(j)) = Len(j)
      /\ Throughputs(Append(j, e)) = Append(Throughputs(j), e.result.meanThroughput)
  <2>1. \A k \in 1 .. Len(j) : j[k].result.meanThroughput \in Nat
    BY <1>1, ResultsType
  <2>2. /\ Throughputs(j) \in Seq(Nat) /\ Len(Throughputs(j)) = Len(j)
        /\ \A k \in 1 .. Len(j) : Throughputs(j)[k] = j[k].result.meanThroughput
    BY <1>1, <2>1 DEF Throughputs
  <2>3. Throughputs(Append(j, e))
          = [k \in 1 .. Len(j) + 1 |-> IF k = Len(j) + 1 THEN e.result.meanThroughput
                                       ELSE Throughputs(j)[k]]
    BY <1>1, <2>2 DEF Throughputs
  <2> QED
    BY <1>1, <1>2, <2>2, <2>3, ResultsType
<1>4. /\ Reads(j) \in Seq(Nat) /\ Len(Reads(j)) = Len(j)
      /\ Reads(Append(j, e)) = Append(Reads(j), e.result.readDivergenceRatio)
  <2>1. \A k \in 1 .. Len(j) : j[k].result.readDivergenceRatio \in Nat
    BY <1>1, ResultsType
  <2>2. /\ Reads(j) \in Seq(Nat) /\ Len(Reads(j)) = Len(j)
        /\ \A k \in 1 .. Len(j) : Reads(j)[k] = j[k].result.readDivergenceRatio
    BY <1>1, <2>1 DEF Reads
  <2>3. Reads(Append(j, e))
          = [k \in 1 .. Len(j) + 1 |-> IF k = Len(j) + 1 THEN e.result.readDivergenceRatio
                                       ELSE Reads(j)[k]]
    BY <1>1, <2>2 DEF Reads
  <2> QED
    BY <1>1, <1>2, <2>2, <2>3, ResultsType
<1>5. /\ Writes(j) \in Seq(Nat) /\ Len(Writes(j)) = Len(j)
      /\ Writes(Append(j, e)) = Append(Writes(j), e.result.writeDivergenceRatio)
  <2>1. \A k \in 1 .. Len(j) : j[k].result.writeDivergenceRatio \in Nat
    BY <1>1, ResultsType
  <2>2. /\ Writes(j) \in Seq(Nat) /\ Len(Writes(j)) = Len(j)
        /\ \A k \in 1 .. Len(j) : Writes(j)[k] = j[k].result.writeDivergenceRatio
    BY <1>1, <2>1 DEF Writes
  <2>3. Writes(Append(j, e))
          = [k \in 1 .. Len(j) + 1 |-> IF k = Len(j) + 1 THEN e.result.writeDivergenceRatio
                                       ELSE Writes(j)[k]]
    BY <1>1, <2>2 DEF Writes
  <2> QED
    BY <1>1, <1>2, <2>2, <2>3, ResultsType
<1> QED
  BY <1>3, <1>4, <1>5

\* u is v with x, at place n: the runs R alone are as they were, and with n they are fed x.
Grown(v, x, u, R, n) ==
  /\ Statistics(R, u) = Statistics(R, v)
  /\ Statistics(R \cup {n}, u) = Update(Statistics(R, v), x)

\* The entry of an id after one more judgment: of a run it does not count, and of one it does.
LEMMA EntryOfAppend ==
  ASSUME NEW j \in Seq(Judgments), NEW e \in Judgments, NEW S \in SUBSET (1 .. Len(j))
  PROVE  /\ EntryOf(Append(j, e), S) = EntryOf(j, S)
         /\ EntryOf(Append(j, e), S \cup {Len(j) + 1}) = Fed(EntryOf(j, S), e.result)
<1> DEFINE n == Len(j) + 1
           H == HotIn(j, S)
<1>1. /\ H \in SUBSET (1 .. Len(j)) /\ HotIn(Append(j, e), S) = H
      /\ Append(j, e)[n] = e /\ e.result \in Results
  <2>1. HotIn(Append(j, e), S) = H /\ e.result \in Results
    BY SameOver DEF Judgments
  <2>2. Append(j, e)[n] = e
    OBVIOUS
  <2>3. H \in SUBSET (1 .. Len(j))
    BY DEF HotIn
  <2> QED
    BY <2>1, <2>2, <2>3
<1>2. HotIn(Append(j, e), S \cup {n}) = IF e.result.isHotspotRun THEN H \cup {n} ELSE H
  <2>1. HotIn(Append(j, e), S \cup {n})
          = HotIn(Append(j, e), S) \cup {m \in {n} : Append(j, e)[m].result.isHotspotRun}
    BY DEF HotIn
  <2> QED
    BY <1>1, <2>1
<1>3. ASSUME NEW v \in Seq(Nat), Len(v) = Len(j), NEW x \in Nat, NEW R \in SUBSET (1 .. Len(j))
      PROVE  Grown(v, x, Append(v, x), R, n)
  BY <1>3, StatisticsOfAppend DEF Grown
<1>4. /\ e.result.meanThroughput \in Nat /\ e.result.readDivergenceRatio \in Nat
      /\ e.result.writeDivergenceRatio \in Nat
  BY <1>1, ResultsType
<1>5. /\ Statistics(S, Throughputs(Append(j, e))) = Statistics(S, Throughputs(j))
      /\ Statistics(S \cup {n}, Throughputs(Append(j, e)))
           = Update(Statistics(S, Throughputs(j)), e.result.meanThroughput)
      /\ Statistics(H, Reads(Append(j, e))) = Statistics(H, Reads(j))
      /\ Statistics(H \cup {n}, Reads(Append(j, e)))
           = Update(Statistics(H, Reads(j)), e.result.readDivergenceRatio)
      /\ Statistics(H, Writes(Append(j, e))) = Statistics(H, Writes(j))
      /\ Statistics(H \cup {n}, Writes(Append(j, e)))
           = Update(Statistics(H, Writes(j)), e.result.writeDivergenceRatio)
  <2> HIDE DEF H, n
  <2>1. /\ Throughputs(j) \in Seq(Nat) /\ Len(Throughputs(j)) = Len(j)
        /\ Reads(j) \in Seq(Nat) /\ Len(Reads(j)) = Len(j)
        /\ Writes(j) \in Seq(Nat) /\ Len(Writes(j)) = Len(j)
    BY ValuesOfAppend
  <2>2. /\ Throughputs(Append(j, e)) = Append(Throughputs(j), e.result.meanThroughput)
        /\ Reads(Append(j, e)) = Append(Reads(j), e.result.readDivergenceRatio)
        /\ Writes(Append(j, e)) = Append(Writes(j), e.result.writeDivergenceRatio)
    BY ValuesOfAppend
  <2>3. H \in SUBSET (1 .. Len(j))
    BY <1>1
  <2>4. Grown(Throughputs(j), e.result.meanThroughput, Throughputs(Append(j, e)), S, n)
    BY <1>3, <1>4, <2>1, <2>2
  <2>5. Grown(Reads(j), e.result.readDivergenceRatio, Reads(Append(j, e)), H, n)
    BY <1>3, <1>4, <2>1, <2>2, <2>3
  <2>6. Grown(Writes(j), e.result.writeDivergenceRatio, Writes(Append(j, e)), H, n)
    BY <1>3, <1>4, <2>1, <2>2, <2>3
  <2> QED
    BY <2>4, <2>5, <2>6 DEF Grown
<1>6. EntryOf(Append(j, e), S) = EntryOf(j, S)
  BY <1>1, <1>5 DEF EntryOf
<1>7. EntryOf(Append(j, e), S \cup {n}) = Fed(EntryOf(j, S), e.result)
  <2>1. CASE e.result.isHotspotRun
    BY <1>2, <1>5, <2>1 DEF EntryOf, Fed
  <2>2. CASE ~e.result.isHotspotRun
    BY <1>2, <1>5, <2>2 DEF EntryOf, Fed
  <2> QED
    BY <2>1, <2>2
<1> QED
  BY <1>6, <1>7

LEMMA HInit == AnalyzerInit => HInv
<1> SUFFICES ASSUME AnalyzerInit PROVE Remembers(judged, history)
  BY SInit DEF HInv
<1>1. judged = <<>> /\ \A id \in TestIds : history[id] = EmptyEntry
  BY DEF AnalyzerInit
<1>2. ASSUME NEW v, v = <<>> PROVE Statistics({}, v) = EmptyWelford
  <2>1. Len(v) = 0 /\ Squares(v) = <<>>
    BY <1>2 DEF Squares
  <2>2. ASSUME NEW u, u = <<>> PROVE SumOver({}, u) = 0
    <3>1. Len(u) = 0
      BY <2>2
    <3>2. PICK g : Adds({}, u, 0, g) /\ SumOver({}, u) = g[0]
      BY <3>1, SumIsSome
    <3> QED
      BY <3>2 DEF Adds
  <2>3. Cardinality({}) = 0
    BY FS_EmptySet
  <2> QED
    BY <1>2, <2>1, <2>2, <2>3 DEF Statistics, Squares, EmptyWelford
<1>3. Throughputs(<<>>) = <<>> /\ Reads(<<>>) = <<>> /\ Writes(<<>>) = <<>>
  BY DEF Throughputs, Reads, Writes
<1>4. ASSUME NEW id \in TestIds PROVE RunsIn(<<>>, id) = {} /\ HotIn(<<>>, {}) = {}
  BY DEF RunsIn, TrustedIn, HotIn
<1>5. ASSUME NEW id \in TestIds PROVE history[id] = EntryOf(judged, RunsIn(judged, id))
  BY <1>1, <1>2, <1>3, <1>4 DEF EntryOf, EmptyEntry
<1> QED
  BY <1>5 DEF Remembers

LEMMA EvaluateRemembers ==
  ASSUME HInv, NEW id \in TestIds, NEW result \in Results, Evaluate(id, result)
  PROVE  HInv'
<1>1. /\ SInv /\ Judge(id, result) /\ judged \in Seq(Judgments)
      /\ history \in [TestIds -> Entries] /\ Remembers(judged, history)
  BY DEF HInv, Evaluate, EvaluateFailed, EvaluateTrusted, SInv, HistoryFits
<1>2. PICK e \in Judgments : /\ e.id = id /\ e.result = result
                             /\ judged' = Append(judged, e)
  BY <1>1, JudgeAppends
<1>3. ASSUME NEW i \in TestIds
      PROVE  EntryOf(judged', RunsIn(judged', i))
               = IF i = id /\ Trusted(result) THEN Fed(history[i], result) ELSE history[i]
  <2>1. RunsIn(judged, i) \in SUBSET (1 .. Len(judged))
    BY <1>1, RunsFinite
  <2>2. history[i] = EntryOf(judged, RunsIn(judged, i))
    BY <1>1 DEF Remembers
  <2>3. RunsIn(judged', i) = IF i = id /\ Trusted(result)
                            THEN RunsIn(judged, i) \cup {Len(judged) + 1}
                            ELSE RunsIn(judged, i)
    BY <1>1, <1>2, RunsAfter
  <2>4. /\ EntryOf(judged', RunsIn(judged, i)) = EntryOf(judged, RunsIn(judged, i))
        /\ EntryOf(judged', RunsIn(judged, i) \cup {Len(judged) + 1})
             = Fed(EntryOf(judged, RunsIn(judged, i)), result)
    BY <1>1, <1>2, <2>1, EntryOfAppend
  <2> QED
    BY <2>2, <2>3, <2>4
<1>4. \A i \in TestIds :
        history'[i] = IF i = id /\ Trusted(result) THEN Fed(history[i], result) ELSE history[i]
  BY <1>1 DEF Evaluate, EvaluateFailed, EvaluateTrusted
<1> QED
  BY <1>1, <1>3, <1>4, EvaluateKeeps DEF HInv, Remembers

\* The streams of a test hold its trusted runs and nothing else, whatever the order the
\* results arrive in; a hotspot's ratio streams its hotspot runs
\* (MemoryRegressionHistoryBackend::updateImpl, RegressionAnalyzer::evaluate).
THEOREM HistoryTrusted == AnalyzerSpec => []HistoryIsTheTrustedRuns
<1>1. HInv /\ [AnalyzerNext]_analyzer => HInv'
  <2> SUFFICES ASSUME HInv, [AnalyzerNext]_analyzer PROVE HInv'
    OBVIOUS
  <2>1. CASE AnalyzerNext
    BY <2>1, EvaluateRemembers DEF AnalyzerNext
  <2>2. CASE UNCHANGED analyzer
    BY <2>2 DEF analyzer, HInv, SInv
  <2> QED
    BY <2>1, <2>2
<1>2. HInv => HistoryIsTheTrustedRuns
  BY RemembersIsNeed DEF HInv
<1> QED
  BY <1>1, <1>2, HInit, PTL DEF AnalyzerSpec
=============================================================================
