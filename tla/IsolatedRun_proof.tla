------------------------- MODULE IsolatedRun_proof -------------------------
(***************************************************************************)
(* The verdicts of run --isolate are true for every program, every filter, *)
(* every timeout and every width of the milliseconds; and the filter       *)
(* selects what its glob describes, for patterns and ids of every length.  *)
(***************************************************************************)
EXTENDS IsolatedRun, WellFoundedInduction, TLAPS

-----------------------------------------------------------------------------
(* Sequences of whatever elements. *)

IsSeq(s) == \E S : s \in Seq(S)

LEMMA AppendIsSeq ==
  ASSUME NEW s, NEW e, IsSeq(s)
  PROVE  /\ IsSeq(Append(s, e))
         /\ Len(s) \in Nat /\ Len(Append(s, e)) = Len(s) + 1
         /\ DOMAIN s = 1 .. Len(s) /\ DOMAIN Append(s, e) = DOMAIN s \cup {Len(s) + 1}
         /\ Len(s) + 1 \notin DOMAIN s
         /\ \A n \in DOMAIN s : Append(s, e)[n] = s[n]
         /\ Append(s, e)[Len(s) + 1] = e
<1>1. PICK S : s \in Seq(S)
  BY DEF IsSeq
<1>2. s \in Seq(S \cup {e})
  BY <1>1
<1>3. Append(s, e) \in Seq(S \cup {e})
  BY <1>2
<1>4. IsSeq(Append(s, e))
  BY <1>3 DEF IsSeq
<1> QED
  BY <1>2, <1>3, <1>4

LEMMA EmptyIsSeq == IsSeq(<<>>) /\ Len(<<>>) = 0 /\ DOMAIN <<>> = {}
<1>1. <<>> \in Seq({})
  OBVIOUS
<1> QED
  BY <1>1 DEF IsSeq

-----------------------------------------------------------------------------
(* The strengthening: what the process in hand and the outcomes so far have *)
(* to do with each other.                                                   *)

Some(end)  == \E n \in DOMAIN child.results : child.results[n].end = end

ChildShape ==
  child = [running |-> child.running, hung |-> child.hung, queue |-> child.queue,
           results |-> child.results, code |-> child.code]

\* A process that runs has not crashed; one that has ended has crashed, or is through.
ChildFollowsResults ==
  /\ ChildShape /\ IsSeq(child.results) /\ child.running \in BOOLEAN /\ child.hung \in BOOLEAN
  /\ child.queue = Matching(Argument(Current.id), compiled)
  /\ \A n \in DOMAIN child.results : child.results[n].id = child.queue[n].id
  /\ \A n \in DOMAIN child.results : child.results[n].end \in {"pass", "fail", "crash", "hang"}
  /\ Some("hang") => child.hung /\ child.running
  /\ child.running => ~Some("crash")
  /\ ~child.running =>
       \/ Some("crash") /\ child.code = 3
       \/ /\ Len(child.results) = Len(child.queue) /\ ~Some("crash")
          /\ child.code = IF Some("fail") THEN 1 ELSE 0

Verdict(i) ==
  outcomes[i].passed <=>
    /\ ~outcomes[i].timedOut /\ ran[i].started /\ AllPassed(ran[i].results)
    /\ SameIds(ran[i].results, Matching(Argument(outcomes[i].id), compiled))

VInv ==
  /\ IsSeq(outcomes) /\ IsSeq(ran) /\ Len(ran) = Len(outcomes)
  /\ failed \in Nat /\ (failed # 0 <=> \E i \in DOMAIN outcomes : ~outcomes[i].passed)
  /\ \A i \in DOMAIN outcomes : Verdict(i) /\ outcomes[i].id = selected[i].id
  /\ phase = "read" => outcomes = <<>> /\ selected = <<>>
  /\ IF phase \in {"wait", "kill"} THEN ChildFollowsResults ELSE child = NoChild
  /\ phase = "done" => \/ selected = <<>>
                       \/ /\ Len(outcomes) = Len(selected)
                          /\ exitCode = IF failed # 0 THEN 1 ELSE 0

LEMMA VInvImpliesVerdicts == VInv => VerdictsAreTrue
BY DEF VInv, Verdict, VerdictsAreTrue, SameIds

LEMMA VInit == IsolatedInit => VInv
BY EmptyIsSeq DEF IsolatedInit, VInv, NoChild

\* The program's own steps keep what ties the process to its results.
LEMMA TestEndsKeeps ==
  ASSUME VInv, NEW end \in {"pass", "fail", "crash", "hang"}, TestEnds(end)
  PROVE  VInv'
<1> DEFINE r == Result(end)
<1>1. phase \in {"wait", "kill"} /\ ChildFollowsResults
  BY DEF VInv, TestEnds, NoChild
<1>2. /\ child.running /\ ~child.hung /\ ~Some("hang") /\ ~Some("crash")
      /\ IsSeq(child.results)
  BY <1>1 DEF TestEnds, ChildFollowsResults
<1>3. /\ child'.results = Append(child.results, r) /\ child'.queue = child.queue
      /\ child'.running = (end # "crash") /\ child'.hung = (end = "hang")
      /\ child'.code = IF end = "crash" THEN 3 ELSE child.code
      /\ ChildShape'
  BY <1>1, <1>2, Zenon DEF TestEnds, ChildFollowsResults, ChildShape, Ended
<1>4. r.id = child.queue[Len(child.results) + 1].id /\ r.end = end
  BY DEF Result
<1>5. /\ IsSeq(child'.results)
      /\ DOMAIN child'.results = DOMAIN child.results \cup {Len(child.results) + 1}
      /\ \A n \in DOMAIN child.results : child'.results[n] = child.results[n]
      /\ child'.results[Len(child.results) + 1] = r
  BY <1>2, <1>3, AppendIsSeq
<1>6. /\ Some("hang")' <=> end = "hang"
      /\ Some("crash")' <=> end = "crash"
  BY <1>2, <1>4, <1>5 DEF Some
<1>7. \A n \in DOMAIN child'.results :
        /\ child'.results[n].id = child'.queue[n].id
        /\ child'.results[n].end \in {"pass", "fail", "crash", "hang"}
  BY <1>1, <1>3, <1>4, <1>5 DEF ChildFollowsResults
<1>8. /\ child'.queue = Matching(Argument(Current'.id), compiled')
      /\ child'.running \in BOOLEAN /\ child'.hung \in BOOLEAN
      /\ Some("hang")' => child'.hung /\ child'.running
      /\ child'.running => ~Some("crash")'
      /\ ~child'.running => Some("crash")' /\ child'.code = 3
  BY <1>1, <1>3, <1>6 DEF ChildFollowsResults, TestEnds, Current
<1>9. ChildFollowsResults'
  BY <1>3, <1>5, <1>7, <1>8 DEF ChildFollowsResults
<1> QED
  BY <1>1, <1>9 DEF VInv, TestEnds, Verdict

LEMMA ProgramEndsKeeps == ASSUME VInv, ProgramEnds PROVE VInv'
<1>1. phase \in {"wait", "kill"} /\ ChildFollowsResults
  BY DEF VInv, ProgramEnds, NoChild
<1>2. /\ child'.results = child.results /\ child'.queue = child.queue
      /\ child'.running = FALSE /\ child'.hung = child.hung
      /\ child'.code = IF Some("fail") THEN 1 ELSE 0
      /\ ChildShape'
  BY <1>1, Zenon DEF ProgramEnds, ChildFollowsResults, ChildShape, Ended, Some
<1>3. Len(child.results) = Len(child.queue) /\ ~Some("hang") /\ ~Some("crash")
  BY <1>1 DEF ProgramEnds, ChildFollowsResults
<1>4. \A end : Some(end)' <=> Some(end)
  BY <1>2 DEF Some
<1>5. /\ child'.queue = Matching(Argument(Current'.id), compiled')
      /\ IsSeq(child'.results) /\ child'.hung \in BOOLEAN
      /\ \A n \in DOMAIN child'.results :
           /\ child'.results[n].id = child'.queue[n].id
           /\ child'.results[n].end \in {"pass", "fail", "crash", "hang"}
  BY <1>1, <1>2 DEF ChildFollowsResults, ProgramEnds, Current
<1>6. /\ Some("hang")' => child'.hung /\ child'.running
      /\ Len(child'.results) = Len(child'.queue) /\ ~Some("crash")'
      /\ child'.code = IF Some("fail")' THEN 1 ELSE 0
  BY <1>2, <1>3, <1>4
<1>7. ChildFollowsResults'
  BY <1>2, <1>5, <1>6 DEF ChildFollowsResults
<1> QED
  BY <1>1, <1>7 DEF VInv, ProgramEnds, Verdict

-----------------------------------------------------------------------------
(* An outcome is added, with the history of its process. *)

LEMMA CollectKeeps ==
  ASSUME VInv, phase # "read", NEW exit, NEW timedOut \in BOOLEAN, NEW started \in BOOLEAN,
         NEW results, Collect(exit, timedOut, started, results),
         (~timedOut /\ exit = 0) <=>
           /\ ~timedOut /\ started /\ AllPassed(results)
           /\ SameIds(results, Matching(Argument(Current.id), compiled))
  PROVE  VInv'
<1> DEFINE passed == ~timedOut /\ exit = 0
           outcome == [id |-> Current.id, passed |-> passed, timedOut |-> timedOut]
           run == [started |-> started, results |-> results]
           k == Len(outcomes) + 1
<1>1. /\ outcomes' = Append(outcomes, outcome) /\ ran' = Append(ran, run)
      /\ failed' = failed + (IF passed THEN 0 ELSE 1)
      /\ phase' = "next" /\ child' = NoChild
      /\ compiled' = compiled /\ selected' = selected
  BY DEF Collect
<1>2. /\ IsSeq(outcomes') /\ DOMAIN outcomes = 1 .. Len(outcomes) /\ Len(outcomes') = Len(outcomes) + 1
      /\ DOMAIN outcomes' = DOMAIN outcomes \cup {k} /\ k \notin DOMAIN outcomes
      /\ \A i \in DOMAIN outcomes : outcomes'[i] = outcomes[i]
      /\ outcomes'[k] = outcome
  BY <1>1, AppendIsSeq DEF VInv
<1>3. /\ IsSeq(ran') /\ Len(ran') = Len(ran) + 1 /\ DOMAIN ran = DOMAIN outcomes
      /\ \A i \in DOMAIN outcomes : ran'[i] = ran[i]
      /\ ran'[k] = run
  BY <1>1, <1>2, AppendIsSeq DEF VInv
<1>4. \A i \in DOMAIN outcomes : Verdict(i)'
  BY <1>1, <1>2, <1>3 DEF VInv, Verdict
<1>. /\ outcome.id = Current.id /\ (outcome.passed <=> passed) /\ (outcome.timedOut <=> timedOut)
     /\ (run.started <=> started) /\ run.results = results
  OBVIOUS
<1> HIDE DEF outcome, run
<1>5. \A i \in {k} : Verdict(i)'
  BY <1>1, <1>2, <1>3 DEF Verdict
<1>6. \A i \in DOMAIN outcomes' : outcomes'[i].id = selected'[i].id
  BY <1>1, <1>2 DEF VInv, Current
<1>7. failed' \in Nat /\ (failed' # 0 <=> \E i \in DOMAIN outcomes' : ~outcomes'[i].passed)
  <2>1. failed' \in Nat /\ (failed' # 0 <=> failed # 0 \/ ~passed)
    BY <1>1 DEF VInv
  <2>2. (\E i \in DOMAIN outcomes' : ~outcomes'[i].passed) <=>
          (\E i \in DOMAIN outcomes : ~outcomes[i].passed) \/ ~passed
    BY <1>2
  <2> QED
    BY <2>1, <2>2 DEF VInv
<1>8. \A i \in DOMAIN outcomes' : Verdict(i)' /\ outcomes'[i].id = selected'[i].id
  BY <1>2, <1>4, <1>5, <1>6
<1> HIDE DEF k, passed
<1> QED
  BY <1>1, <1>2, <1>3, <1>7, <1>8 DEF VInv

LEMMA ExitedKeeps == ASSUME VInv, Exited PROVE VInv'
<1>1. ChildFollowsResults /\ ~child.running /\ phase # "read"
  BY DEF VInv, Exited
<1>2. ~Some("hang")
  BY <1>1 DEF ChildFollowsResults
<1>3. child.code = 0 <=>
        /\ AllPassed(child.results)
        /\ SameIds(child.results, Matching(Argument(Current.id), compiled))
  BY <1>1, <1>2 DEF ChildFollowsResults, AllPassed, SameIds, Some
<1> QED
  BY <1>1, <1>3, CollectKeeps DEF Exited

LEMMA SpawnFailsKeeps == ASSUME VInv, SpawnFails PROVE VInv'
<1>1. -1 # 0
  OBVIOUS
<1> QED
  BY <1>1, CollectKeeps DEF SpawnFails

LEMMA TerminateKeeps == ASSUME VInv, Terminate PROVE VInv'
BY CollectKeeps DEF Terminate

LEMMA SpawnKeeps == ASSUME VInv, Spawn PROVE VInv'
<1>1. ChildFollowsResults'
  BY EmptyIsSeq DEF Spawn, Started, ChildFollowsResults, ChildShape, Some, Current
<1> QED
  BY <1>1 DEF VInv, Spawn, Verdict

\* The steps that move only the phase, the clock or the file.
LEMMA QuietKeeps ==
  ASSUME VInv, NextTest \/ Rest \/ TimesOut \/ Tick \/ EditToml \/ Summary \/ ReadAndSelect
         \/ ReadFails
  PROVE  VInv'
<1>1. CASE TimesOut \/ Tick
  BY <1>1 DEF VInv, TimesOut, Tick, ChildFollowsResults, ChildShape, Some, Current, Verdict
<1>2. CASE NextTest \/ Rest \/ EditToml
  BY <1>2 DEF VInv, NextTest, Rest, EditToml, Verdict
<1>3. CASE Summary \/ ReadFails
  BY <1>3 DEF VInv, Summary, ReadFails, Verdict
<1>4. CASE ReadAndSelect
  BY <1>4, EmptyIsSeq DEF VInv, ReadAndSelect, Verdict
<1> QED
  BY <1>1, <1>2, <1>3, <1>4

LEMMA VNext == VInv /\ [IsolatedNext]_ivars => VInv'
<1> SUFFICES ASSUME VInv, [IsolatedNext]_ivars PROVE VInv'
  OBVIOUS
<1>1. CASE UNCHANGED ivars
  BY <1>1 DEF VInv, ivars, ChildFollowsResults, ChildShape, Some, Current, Verdict
<1>2. CASE ProgramStep
  BY <1>2, TestEndsKeeps, ProgramEndsKeeps DEF ProgramStep
<1>3. CASE Exited \/ SpawnFails \/ Terminate \/ Spawn
  BY <1>3, ExitedKeeps, SpawnFailsKeeps, TerminateKeeps, SpawnKeeps
<1>4. CASE \/ NextTest \/ Rest \/ TimesOut \/ Tick \/ EditToml \/ Summary \/ ReadAndSelect
           \/ ReadFails
  BY <1>4, QuietKeeps
<1> QED
  BY <1>1, <1>2, <1>3, <1>4 DEF IsolatedNext, DriverStep

\* Whatever a test does, and whatever the others did, the verdict of run --isolate
\* on it is true, and the exit code of the command is that of all verdicts
\* (cmdRunIsolate, runProcessTimed and the generated main).
THEOREM IsolatedVerdicts == IsolatedSpec => []VerdictsAreTrue
<1>1. IsolatedInit => VInv
  BY VInit
<1>2. VInv /\ [IsolatedNext]_ivars => VInv'
  BY VNext
<1>3. VInv => VerdictsAreTrue
  BY VInvImpliesVerdicts
<1> QED
  BY <1>1, <1>2, <1>3, PTL DEF IsolatedSpec

-----------------------------------------------------------------------------
(* The matcher: what the rest of a glob takes of the rest of a text, one   *)
(* character of the pattern at a time.                                     *)

\* A set of natural numbers has a least element.
LEMMA LeastNatural ==
  ASSUME NEW T, T \subseteq Nat, T # {}
  PROVE  \E n \in T : \A m \in T : n <= m
<1> DEFINE R == {ss \in Nat \X Nat : ss[1] < ss[2]}
<1>1. IsWellFoundedOn(R, Nat)
  BY NatLessThanWellFounded DEF OpToRel
<1>2. PICK n \in T : \A m \in T : ~ (<<m, n>> \in R)
  BY <1>1, WFMin
<1>3. \A m \in T : ~(m < n)
  BY <1>2
<1> QED
  BY <1>3

\* One piece of a cut of the text.
Piece(pattern, text, cut, k) ==
  IF pattern[k] = Star THEN cut[k - 1] <= cut[k]
  ELSE cut[k] = cut[k - 1] + 1 /\ text[cut[k]] = pattern[k]

Cuts(pattern, text, p, t, cut) ==
  /\ cut \in [p .. Len(pattern) -> 0 .. Len(text)]
  /\ cut[p] = t /\ cut[Len(pattern)] = Len(text)
  /\ \A k \in p + 1 .. Len(pattern) : Piece(pattern, text, cut, k)

\* The pattern behind p takes the text behind t.
GlobFrom(pattern, text, p, t) == \E cut : Cuts(pattern, text, p, t, cut)

LEMMA GlobIsGlobFrom ==
  ASSUME NEW pattern, NEW text
  PROVE  Glob(pattern, text) <=> GlobFrom(pattern, text, 0, 0)
BY DEF Glob, GlobFrom, Cuts, Piece

LEMMA GlobEnd ==
  ASSUME NEW pattern, NEW text, Len(pattern) \in Nat, Len(text) \in Nat, NEW t \in 0 .. Len(text)
  PROVE  GlobFrom(pattern, text, Len(pattern), t) <=> t = Len(text)
<1> DEFINE P == Len(pattern)
           T == Len(text)
<1>1. ASSUME GlobFrom(pattern, text, P, t) PROVE t = T
  BY <1>1 DEF GlobFrom, Cuts
<1>2. ASSUME t = T PROVE GlobFrom(pattern, text, P, t)
  <2> DEFINE cut == [k \in P .. P |-> T]
  <2>1. cut \in [P .. P -> 0 .. T] /\ cut[P] = T /\ P + 1 .. P = {}
    OBVIOUS
  <2>2. Cuts(pattern, text, P, t, cut)
    BY <1>2, <2>1 DEF Cuts
  <2> QED
    BY <2>2 DEF GlobFrom
<1> QED
  BY <1>1, <1>2

\* The first character of the pattern, and the others.
LEMMA GlobStep ==
  ASSUME NEW pattern, NEW text, Len(pattern) \in Nat, Len(text) \in Nat,
         NEW p \in 0 .. Len(pattern), p < Len(pattern), NEW t \in 0 .. Len(text)
  PROVE  GlobFrom(pattern, text, p, t) <=>
           IF pattern[p + 1] = Star
           THEN \E m \in t .. Len(text) : GlobFrom(pattern, text, p + 1, m)
           ELSE /\ t < Len(text) /\ text[t + 1] = pattern[p + 1]
                /\ GlobFrom(pattern, text, p + 1, t + 1)
<1> DEFINE P == Len(pattern)
           T == Len(text)
<1>1. p + 1 \in p .. P /\ P \in p + 1 .. P /\ (p + 1) - 1 = p /\ p \in p .. P
  OBVIOUS
<1>2. ASSUME GlobFrom(pattern, text, p, t)
      PROVE  \E m \in 0 .. T : /\ GlobFrom(pattern, text, p + 1, m)
                               /\ IF pattern[p + 1] = Star THEN t <= m
                                  ELSE m = t + 1 /\ text[m] = pattern[p + 1]
  <2>1. PICK cut : Cuts(pattern, text, p, t, cut)
    BY <1>2 DEF GlobFrom
  <2> DEFINE rest == [k \in p + 1 .. P |-> cut[k]]
  <2>2. cut[p + 1] \in 0 .. T /\ cut[p] = t /\ Piece(pattern, text, cut, p + 1)
    BY <1>1, <2>1 DEF Cuts
  <2>3. Cuts(pattern, text, p + 1, cut[p + 1], rest)
    <3>1. rest \in [p + 1 .. P -> 0 .. T] /\ rest[p + 1] = cut[p + 1] /\ rest[P] = T
      BY <1>1, <2>1 DEF Cuts
    <3>2. ASSUME NEW k \in (p + 1) + 1 .. P PROVE Piece(pattern, text, rest, k)
      <4>1. k \in p + 1 .. P /\ k - 1 \in p + 1 .. P
        OBVIOUS
      <4>2. Piece(pattern, text, cut, k)
        BY <2>1, <4>1 DEF Cuts
      <4> QED
        BY <4>1, <4>2 DEF Piece
    <3> QED
      BY <3>1, <3>2 DEF Cuts
  <2> QED
    BY <1>1, <2>2, <2>3 DEF GlobFrom, Piece
<1>3. ASSUME NEW m \in 0 .. T, GlobFrom(pattern, text, p + 1, m),
             IF pattern[p + 1] = Star THEN t <= m ELSE m = t + 1 /\ text[m] = pattern[p + 1]
      PROVE  GlobFrom(pattern, text, p, t)
  <2>1. PICK rest : Cuts(pattern, text, p + 1, m, rest)
    BY <1>3 DEF GlobFrom
  <2> DEFINE cut == [k \in p .. P |-> IF k = p THEN t ELSE rest[k]]
  <2>2. cut \in [p .. P -> 0 .. T] /\ cut[p] = t /\ cut[P] = T /\ cut[p + 1] = m
    BY <1>1, <2>1 DEF Cuts
  <2>3. ASSUME NEW k \in p + 1 .. P PROVE Piece(pattern, text, cut, k)
    <3>1. CASE k = p + 1
      BY <1>1, <1>3, <2>2, <3>1 DEF Piece
    <3>2. CASE k # p + 1
      <4>1. k \in (p + 1) + 1 .. P
        BY <3>2
      <4>2. cut[k] = rest[k] /\ cut[k - 1] = rest[k - 1]
        BY <4>1
      <4>3. Piece(pattern, text, rest, k)
        BY <2>1, <4>1 DEF Cuts
      <4> QED
        BY <4>2, <4>3 DEF Piece
    <3> QED
      BY <3>1, <3>2
  <2>4. Cuts(pattern, text, p, t, cut)
    BY <2>2, <2>3 DEF Cuts
  <2> QED
    BY <2>4 DEF GlobFrom
<1>4. CASE pattern[p + 1] = Star
  <2>1. \A m \in 0 .. T : t <= m <=> m \in t .. T
    OBVIOUS
  <2>2. \A m \in t .. T : m \in 0 .. T
    OBVIOUS
  <2> QED
    BY <1>2, <1>3, <1>4, <2>1, <2>2
<1>5. CASE pattern[p + 1] # Star
  <2>1. t + 1 \in 0 .. T <=> t < T
    OBVIOUS
  <2> QED
    BY <1>2, <1>3, <1>5, <2>1
<1> QED
  BY <1>4, <1>5

\* Characters without a star among them take as many of the text.
LEMMA GlobPlain ==
  ASSUME NEW pattern, NEW text, Len(pattern) \in Nat, Len(text) \in Nat,
         NEW p \in 0 .. Len(pattern), NEW q \in p .. Len(pattern), NEW m \in 0 .. Len(text),
         \A k \in p + 1 .. q : pattern[k] # Star, GlobFrom(pattern, text, p, m)
  PROVE  m + (q - p) \in 0 .. Len(text) /\ GlobFrom(pattern, text, q, m + (q - p))
<1> DEFINE T == Len(text)
           Taken(d) == m + d \in 0 .. T /\ GlobFrom(pattern, text, p + d, m + d)
           Bad == {d \in 0 .. q - p : ~Taken(d)}
<1>1. SUFFICES ASSUME Bad # {} PROVE FALSE
  <2>1. q - p \in 0 .. q - p /\ p + (q - p) = q
    OBVIOUS
  <2>2. ASSUME Bad = {} PROVE Taken(q - p)
    BY <2>1, <2>2
  <2> QED
    BY <2>1, <2>2
<1>2. PICK d \in Bad : \A e \in Bad : d <= e
  <2>1. Bad \subseteq Nat
    OBVIOUS
  <2> QED
    BY <1>1, <2>1, LeastNatural
<1>3. d # 0
  <2>1. Taken(0)
    OBVIOUS
  <2> QED
    BY <1>2, <2>1
<1>4. d - 1 \in 0 .. q - p /\ ~(d <= d - 1)
  BY <1>2, <1>3
<1>5. Taken(d - 1)
  BY <1>2, <1>4
<1>6. /\ p + (d - 1) \in 0 .. Len(pattern) /\ p + (d - 1) < Len(pattern)
      /\ (p + (d - 1)) + 1 = p + d /\ p + d \in p + 1 .. q /\ (m + (d - 1)) + 1 = m + d
  BY <1>2, <1>4
<1>7. m + (d - 1) < T /\ GlobFrom(pattern, text, p + d, m + d)
  BY <1>5, <1>6, GlobStep
<1>8. m + d \in 0 .. T
  BY <1>2, <1>5, <1>7
<1> QED
  BY <1>2, <1>7, <1>8

\* Where the text ends only stars may be left.
LEMMA GlobStars ==
  ASSUME NEW pattern, NEW text, Len(pattern) \in Nat, Len(text) \in Nat, NEW p \in 0 .. Len(pattern)
  PROVE  OnlyStars(pattern, p) <=> GlobFrom(pattern, text, p, Len(text))
<1> DEFINE P == Len(pattern)
           T == Len(text)
<1>1. ASSUME OnlyStars(pattern, p) PROVE GlobFrom(pattern, text, p, T)
  <2> DEFINE cut == [k \in p .. P |-> T]
  <2>1. cut \in [p .. P -> 0 .. T] /\ cut[p] = T /\ cut[P] = T
    OBVIOUS
  <2>2. ASSUME NEW k \in p + 1 .. P PROVE Piece(pattern, text, cut, k)
    <3>1. k \in p .. P /\ k - 1 \in p .. P
      OBVIOUS
    <3>2. cut[k - 1] = T /\ cut[k] = T /\ T <= T
      BY <3>1
    <3> QED
      BY <1>1, <3>2 DEF Piece, OnlyStars
  <2>3. Cuts(pattern, text, p, T, cut)
    BY <2>1, <2>2 DEF Cuts
  <2> QED
    BY <2>3 DEF GlobFrom
<1>2. ASSUME GlobFrom(pattern, text, p, T) PROVE OnlyStars(pattern, p)
  <2> DEFINE Bad == {e \in 0 .. P : GlobFrom(pattern, text, P - e, T) /\ ~OnlyStars(pattern, P - e)}
  <2>1. SUFFICES ASSUME Bad # {} PROVE FALSE
    <3>1. P - p \in 0 .. P /\ P - (P - p) = p
      OBVIOUS
    <3> QED
      BY <1>2, <3>1
  <2>2. PICK e \in Bad : \A f \in Bad : e <= f
    <3>1. Bad \subseteq Nat
      OBVIOUS
    <3> QED
      BY <2>1, <3>1, LeastNatural
  <2> DEFINE q == P - e
  <2>3. e # 0
    <3>1. OnlyStars(pattern, P)
      BY DEF OnlyStars
    <3>2. P - 0 = P
      OBVIOUS
    <3> QED
      BY <2>2, <3>1, <3>2
  <2>4. q \in 0 .. P /\ q < P /\ q + 1 = P - (e - 1) /\ e - 1 \in 0 .. P /\ ~(e <= e - 1)
    BY <2>2, <2>3
  <2>5. GlobFrom(pattern, text, q, T) /\ ~OnlyStars(pattern, q)
    BY <2>2
  <2> HIDE DEF q
  <2>6. T \in 0 .. T /\ ~(T < T) /\ \A m \in T .. T : m = T
    OBVIOUS
  <2>7. pattern[q + 1] = Star /\ GlobFrom(pattern, text, q + 1, T)
    BY <2>4, <2>5, <2>6, GlobStep
  <2>8. OnlyStars(pattern, q + 1)
    BY <2>2, <2>4, <2>7
  <2>9. \A k \in q + 1 .. P : k = q + 1 \/ k \in (q + 1) + 1 .. P
    BY <2>4
  <2>10. OnlyStars(pattern, q)
    BY <2>7, <2>8, <2>9 DEF OnlyStars
  <2> QED
    BY <2>5, <2>10
<1> QED
  BY <1>1, <1>2

\* A glob without a star takes itself and nothing else.
LEMMA GlobOfPlain ==
  ASSUME NEW C, NEW pattern \in Seq(C), NEW text \in Seq(C), \A k \in DOMAIN pattern : pattern[k] # Star
  PROVE  Glob(pattern, text) <=> text = pattern
<1> DEFINE P == Len(pattern)
           T == Len(text)
<1>1. P \in Nat /\ T \in Nat /\ DOMAIN pattern = 1 .. P /\ 0 + 1 .. P = 1 .. P
  OBVIOUS
<1>2. ASSUME text = pattern PROVE Glob(pattern, text)
  <2> DEFINE cut == [k \in 0 .. P |-> k]
  <2>1. cut \in [0 .. P -> 0 .. T] /\ cut[0] = 0 /\ cut[P] = T
    BY <1>1, <1>2
  <2>2. ASSUME NEW k \in 1 .. P PROVE Piece(pattern, text, cut, k)
    <3>1. cut[k] = k /\ cut[k - 1] = k - 1 /\ k = (k - 1) + 1
      BY <1>1
    <3> QED
      BY <1>1, <1>2, <3>1 DEF Piece
  <2>3. Cuts(pattern, text, 0, 0, cut)
    BY <1>1, <2>1, <2>2 DEF Cuts
  <2> QED
    BY <2>3, GlobIsGlobFrom DEF GlobFrom
<1>3. ASSUME Glob(pattern, text) PROVE text = pattern
  <2>1. PICK cut : Cuts(pattern, text, 0, 0, cut)
    BY <1>3, GlobIsGlobFrom DEF GlobFrom
  <2>2. ASSUME NEW k \in 1 .. P PROVE cut[k] = cut[k - 1] + 1 /\ text[cut[k]] = pattern[k]
    BY <1>1, <2>1 DEF Cuts, Piece
  <2>3. cut[0] = 0 /\ cut[P] = T
    BY <2>1 DEF Cuts
  <2> DEFINE Bad == {k \in 0 .. P : cut[k] # k}
  <2>4. Bad = {}
    <3>1. SUFFICES ASSUME Bad # {} PROVE FALSE
      OBVIOUS
    <3>2. PICK k \in Bad : \A l \in Bad : k <= l
      <4>1. Bad \subseteq Nat
        OBVIOUS
      <4> QED
        BY <3>1, <4>1, LeastNatural
    <3>3. k \in 1 .. P /\ k - 1 \in 0 .. P /\ ~(k <= k - 1)
      BY <1>1, <2>3, <3>2
    <3>4. cut[k - 1] = k - 1 /\ cut[k] = cut[k - 1] + 1
      BY <2>2, <3>2, <3>3
    <3> QED
      BY <3>2, <3>3, <3>4
  <2>5. P = T
    BY <1>1, <2>3, <2>4
  <2>6. \A k \in 1 .. P : text[k] = pattern[k]
    BY <2>2, <2>4
  <2> QED
    BY <1>1, <2>5, <2>6
<1> QED
  BY <1>2, <1>3

-----------------------------------------------------------------------------
(* The loop ends: a star that is met, then the text the last star has      *)
(* eaten, then the text itself, count like digits.                         *)

LEMMA Digits ==
  ASSUME NEW b \in Nat, NEW x \in Nat, NEW x1 \in Nat, NEW y \in Nat, NEW y1 \in Nat
  PROVE  /\ x * b + y \in Nat
         /\ x1 < x /\ y1 < b => x1 * b + y1 < x * b + y
         /\ x1 <= x /\ y1 <= y => x1 * b + y1 <= x * b + y
         /\ x1 = x /\ y1 < y => x1 * b + y1 < x * b + y
<1>1. \A m \in Nat : m * b \in Nat
  OBVIOUS
<1>2. ASSUME NEW m \in Nat, NEW k \in Nat PROVE (m + k) * b = m * b + k * b
  OBVIOUS
<1>3. ASSUME x1 < x, y1 < b PROVE x1 * b + y1 < x * b + y
  <2>1. x = (x1 + 1) + (x - x1 - 1) /\ x - x1 - 1 \in Nat /\ x1 + 1 \in Nat
    BY <1>3
  <2>2. x * b = (x1 * b + 1 * b) + (x - x1 - 1) * b
    BY <1>2, <2>1
  <2>3. 1 * b = b /\ (x - x1 - 1) * b \in Nat /\ x1 * b \in Nat
    BY <1>1, <2>1
  <2> DEFINE u == x * b
             v == x1 * b
             w == (x - x1 - 1) * b
  <2>4. u = v + b + w /\ v \in Nat /\ w \in Nat
    BY <2>2, <2>3
  <2> HIDE DEF u, v, w
  <2>5. v + y1 < u + y
    BY <1>3, <2>4
  <2> QED
    BY <2>5 DEF u, v
<1>4. ASSUME x1 <= x PROVE x1 * b <= x * b
  <2>1. x = x1 + (x - x1) /\ x - x1 \in Nat
    BY <1>4
  <2>2. x * b = x1 * b + (x - x1) * b
    BY <1>2, <2>1
  <2>3. (x - x1) * b \in Nat /\ x1 * b \in Nat
    BY <1>1, <2>1
  <2> DEFINE u == x * b
             v == x1 * b
             w == (x - x1) * b
  <2>4. u = v + w /\ v \in Nat /\ w \in Nat
    BY <2>2, <2>3
  <2> HIDE DEF u, v, w
  <2>5. v <= u
    BY <2>4
  <2> QED
    BY <2>5 DEF u, v
<1> DEFINE u == x * b
           v == x1 * b
<1>5. u \in Nat /\ v \in Nat /\ (x1 <= x => v <= u) /\ (x1 = x => u = v)
  BY <1>1, <1>4
<1> HIDE DEF u, v
<1>6. u + y \in Nat /\ (x1 <= x /\ y1 <= y => v + y1 <= u + y) /\ (x1 = x /\ y1 < y => v + y1 < u + y)
  BY <1>5
<1> QED
  BY <1>3, <1>6 DEF u, v

LEMMA PositionFields ==
  ASSUME NEW pattern, NEW text, Len(pattern) \in Nat, Len(text) \in Nat,
         NEW s \in Positions(pattern, text)
  PROVE  /\ s.p \in 0 .. Len(pattern) /\ s.t \in 0 .. Len(text)
         /\ s.star \in 0 .. Len(pattern) /\ s.mark \in 0 .. Len(text)
         /\ s.star <= s.p /\ s.mark <= s.t
BY DEF Positions

LEMMA PlaceIsPosition ==
  ASSUME NEW pattern, NEW text, Len(pattern) \in Nat, Len(text) \in Nat,
         NEW p \in 0 .. Len(pattern), NEW t \in 0 .. Len(text),
         NEW star \in 0 .. Len(pattern), NEW mark \in 0 .. Len(text), star <= p, mark <= t
  PROVE  Place(p, t, star, mark) \in Positions(pattern, text)
BY DEF Positions, Place

\* Where a turn goes.
LEMMA TurnGoes ==
  ASSUME NEW pattern, NEW text, Len(pattern) \in Nat, Len(text) \in Nat,
         NEW s \in Positions(pattern, text), s.t # Len(text), ~Stuck(pattern, text, s)
  PROVE  /\ Here(pattern, s.p, text[s.t + 1]) =>
              Turn(pattern, text, s) = Place(s.p + 1, s.t + 1, s.star, s.mark)
         /\ ~Here(pattern, s.p, text[s.t + 1]) /\ Here(pattern, s.p, Star) =>
              Turn(pattern, text, s) = Place(s.p + 1, s.t, s.p + 1, s.t)
         /\ ~Here(pattern, s.p, text[s.t + 1]) /\ ~Here(pattern, s.p, Star) =>
              s.star # 0 /\ Turn(pattern, text, s) = Place(s.star, s.mark + 1, s.star, s.mark + 1)
BY DEF Turn, Stuck

\* What a position counts for.
Count(P, T, star, mark, t) == ((P - star) * (T + 1) + (T - mark)) * (T + 1) + (T - t)

LEMMA CountFalls ==
  ASSUME NEW P \in Nat, NEW T \in Nat, NEW p \in 0 .. P, NEW t \in 0 .. T,
         NEW star \in 0 .. P, NEW mark \in 0 .. T, star <= p, mark <= t
  PROVE  /\ Count(P, T, star, mark, t) \in Nat
         /\ Count(P, T, star, mark, t) <= Count(P, T, 0, 0, 0)
         /\ t < T => Count(P, T, star, mark, t + 1) < Count(P, T, star, mark, t)
         /\ t < T => Count(P, T, star, mark + 1, mark + 1) < Count(P, T, star, mark, t)
         /\ p < P => Count(P, T, p + 1, t, t) < Count(P, T, star, mark, t)
<1> DEFINE x == P - star
           y == T - mark
           z == T - t
           b == T + 1
<1>1. x \in Nat /\ y \in Nat /\ z \in Nat /\ b \in Nat /\ z < b /\ x <= P /\ y <= T /\ z <= T
  OBVIOUS
<1>2. Count(P, T, star, mark, t) = (x * b + y) * b + z
  BY DEF Count
<1>3. Count(P, T, 0, 0, 0) = (P * b + T) * b + T
  BY DEF Count
<1>4. x * b + y \in Nat /\ P * b + T \in Nat /\ x * b + y <= P * b + T
  BY <1>1, Digits
<1>5. (x * b + y) * b + z \in Nat /\ (x * b + y) * b + z <= (P * b + T) * b + T
  BY <1>1, <1>4, Digits
<1>6. ASSUME t < T PROVE Count(P, T, star, mark, t + 1) < Count(P, T, star, mark, t)
  <2> DEFINE z1 == T - (t + 1)
  <2>1. z1 \in Nat /\ z1 < z
    BY <1>6
  <2>2. Count(P, T, star, mark, t + 1) = (x * b + y) * b + z1
    BY DEF Count
  <2> HIDE DEF x, y, z, z1, b
  <2>3. (x * b + y) * b + z1 < (x * b + y) * b + z
    BY <1>1, <1>4, <2>1, Digits
  <2> QED
    BY <1>2, <2>2, <2>3
<1>7. ASSUME t < T PROVE Count(P, T, star, mark + 1, mark + 1) < Count(P, T, star, mark, t)
  <2> DEFINE y1 == T - (mark + 1)
  <2>1. y1 \in Nat /\ y1 < y /\ y1 < b
    BY <1>7
  <2>2. Count(P, T, star, mark + 1, mark + 1) = (x * b + y1) * b + y1
    BY DEF Count
  <2> HIDE DEF x, y, z, y1, b
  <2>3. x * b + y1 < x * b + y /\ x * b + y1 \in Nat
    BY <1>1, <2>1, Digits
  <2>4. (x * b + y1) * b + y1 < (x * b + y) * b + z
    BY <1>1, <1>4, <2>1, <2>3, Digits
  <2> QED
    BY <1>2, <2>2, <2>4
<1>8. ASSUME p < P PROVE Count(P, T, p + 1, t, t) < Count(P, T, star, mark, t)
  <2> DEFINE x1 == P - (p + 1)
  <2>1. x1 \in Nat /\ x1 < x
    BY <1>8
  <2>2. Count(P, T, p + 1, t, t) = (x1 * b + z) * b + z
    BY DEF Count
  <2> HIDE DEF x, y, z, x1, b
  <2>3. x1 * b + z < x * b + y /\ x1 * b + z \in Nat
    BY <1>1, <2>1, Digits
  <2>4. (x1 * b + z) * b + z < (x * b + y) * b + z
    BY <1>1, <1>4, <2>3, Digits
  <2> QED
    BY <1>2, <2>2, <2>4
<1> HIDE DEF x, y, z, b
<1> QED
  BY <1>2, <1>3, <1>5, <1>6, <1>7, <1>8

Rank(pattern, text, s) == Count(Len(pattern), Len(text), s.star, s.mark, s.t)

LEMMA RankIsBounded ==
  ASSUME NEW pattern, NEW text, Len(pattern) \in Nat, Len(text) \in Nat,
         NEW s \in Positions(pattern, text)
  PROVE  Rank(pattern, text, s) \in Nat /\ Rank(pattern, text, s) <= Count(Len(pattern), Len(text), 0, 0, 0)
BY PositionFields, CountFalls DEF Rank

LEMMA TurnFalls ==
  ASSUME NEW pattern, NEW text, Len(pattern) \in Nat, Len(text) \in Nat,
         NEW s \in Positions(pattern, text), s.t # Len(text), ~Stuck(pattern, text, s)
  PROVE  /\ Turn(pattern, text, s) \in Positions(pattern, text)
         /\ Rank(pattern, text, Turn(pattern, text, s)) < Rank(pattern, text, s)
<1> DEFINE P == Len(pattern)
           T == Len(text)
<1>1. PICK p \in 0 .. P, t \in 0 .. T, star \in 0 .. P, mark \in 0 .. T :
        /\ s.p = p /\ s.t = t /\ s.star = star /\ s.mark = mark
        /\ star <= p /\ mark <= t
  BY PositionFields
<1>2. t < T /\ t + 1 \in 0 .. T /\ mark + 1 \in 0 .. T /\ star <= p + 1 /\ mark <= t + 1
      /\ p + 1 <= p + 1 /\ t <= t /\ star <= star /\ mark + 1 <= mark + 1
  BY <1>1
<1>3. \A c : Here(pattern, p, c) => p < P /\ p + 1 \in 0 .. P
  BY DEF Here
<1>4. Rank(pattern, text, s) = Count(P, T, star, mark, t)
  BY <1>1 DEF Rank
<1>5. \A a, b, c, d : Rank(pattern, text, Place(a, b, c, d)) = Count(P, T, c, d, b)
  BY DEF Rank, Place
<1> HIDE DEF P, T
<1>6. CASE Here(pattern, p, text[t + 1])
  <2>1. Turn(pattern, text, s) = Place(p + 1, t + 1, star, mark)
    BY <1>1, <1>6, TurnGoes
  <2>2. Place(p + 1, t + 1, star, mark) \in Positions(pattern, text)
    BY <1>2, <1>3, <1>6, PlaceIsPosition DEF P, T
  <2>3. Count(P, T, star, mark, t + 1) < Count(P, T, star, mark, t)
    BY <1>1, <1>2, CountFalls DEF P, T
  <2> QED
    BY <1>4, <1>5, <2>1, <2>2, <2>3
<1>7. CASE ~Here(pattern, p, text[t + 1]) /\ Here(pattern, p, Star)
  <2>1. Turn(pattern, text, s) = Place(p + 1, t, p + 1, t)
    BY <1>1, <1>7, TurnGoes
  <2>2. Place(p + 1, t, p + 1, t) \in Positions(pattern, text)
    BY <1>2, <1>3, <1>7, PlaceIsPosition DEF P, T
  <2>3. Count(P, T, p + 1, t, t) < Count(P, T, star, mark, t)
    BY <1>1, <1>3, <1>7, CountFalls DEF P, T
  <2> QED
    BY <1>4, <1>5, <2>1, <2>2, <2>3
<1>8. CASE ~Here(pattern, p, text[t + 1]) /\ ~Here(pattern, p, Star)
  <2>1. Turn(pattern, text, s) = Place(star, mark + 1, star, mark + 1)
    BY <1>1, <1>8, TurnGoes
  <2>2. Place(star, mark + 1, star, mark + 1) \in Positions(pattern, text)
    BY <1>2, PlaceIsPosition DEF P, T
  <2>3. Count(P, T, star, mark + 1, mark + 1) < Count(P, T, star, mark, t)
    BY <1>1, <1>2, CountFalls DEF P, T
  <2> QED
    BY <1>4, <1>5, <2>1, <2>2, <2>3
<1> QED
  BY <1>6, <1>7, <1>8

-----------------------------------------------------------------------------
(* A loop that falls has a result, whatever it computes. *)

Walks(S, rank, stop, base, next, n, f) ==
  f = [s \in {s \in S : rank[s] < n} |-> IF stop[s] = 1 THEN base[s] ELSE f[next[s]]]

Falls(S, rank, stop, next) ==
  \A s \in S : stop[s] # 1 => next[s] \in S /\ rank[next[s]] < rank[s]

Walk(S, stop, base, next, f) ==
  f = [s \in S |-> IF stop[s] = 1 THEN base[s] ELSE f[next[s]]]

LEMMA WalkIsDefined ==
  ASSUME NEW S, NEW bound \in Nat, NEW rank \in [S -> Nat], NEW stop, NEW base, NEW next,
         \A s \in S : rank[s] <= bound, Falls(S, rank, stop, next)
  PROVE  \E f : Walk(S, stop, base, next, f)
<1> DEFINE D(n) == {s \in S : rank[s] < n}
           W(n, f) == Walks(S, rank, stop, base, next, n, f)
           Bad == {n \in Nat : ~\E f : W(n, f)}
<1>1. Bad = {}
  <2>1. SUFFICES ASSUME Bad # {} PROVE FALSE
    OBVIOUS
  <2>2. PICK n \in Bad : \A m \in Bad : n <= m
    BY <2>1, LeastNatural
  <2>3. n # 0
    <3> DEFINE f == [s \in {} |-> 0]
    <3>1. D(0) = {}
      OBVIOUS
    <3>2. W(0, f)
      BY <3>1 DEF Walks
    <3> QED
      BY <2>2, <3>2
  <2>4. n - 1 \in Nat /\ ~(n <= n - 1)
    BY <2>2, <2>3
  <2>5. PICK f : W(n - 1, f)
    BY <2>2, <2>4
  <2> DEFINE g == [s \in D(n) |-> IF stop[s] = 1 THEN base[s] ELSE f[next[s]]]
  <2>6. \A s \in D(n - 1) : s \in D(n) /\ f[s] = IF stop[s] = 1 THEN base[s] ELSE f[next[s]]
    BY <2>4, <2>5 DEF Walks
  <2>7. \A s \in D(n - 1) : g[s] = f[s]
    BY <2>6
  <2>8. ASSUME NEW s \in D(n), stop[s] # 1 PROVE next[s] \in D(n - 1)
    <3>1. next[s] \in S /\ rank[next[s]] < rank[s] /\ rank[s] < n
      BY <2>8 DEF Falls
    <3>2. rank[next[s]] \in Nat /\ rank[s] \in Nat /\ n \in Nat
      BY <3>1
    <3> QED
      BY <3>1, <3>2
  <2>9. \A s \in D(n) : g[s] = IF stop[s] = 1 THEN base[s] ELSE g[next[s]]
    BY <2>7, <2>8
  <2>10. g = [s \in D(n) |-> g[s]]
    OBVIOUS
  <2> HIDE DEF g
  <2>11. W(n, g)
    BY <2>9, <2>10 DEF Walks
  <2> QED
    BY <2>2, <2>11
<1>2. bound + 1 \in Nat /\ D(bound + 1) = S
  OBVIOUS
<1>3. PICK f : W(bound + 1, f)
  BY <1>1, <1>2
<1> QED
  BY <1>2, <1>3 DEF Walks, Walk
-----------------------------------------------------------------------------
(* The result of the loop. *)

IsScan(pattern, text, f) ==
  f = [s \in Positions(pattern, text) |->
         IF s.t = Len(text) THEN OnlyStars(pattern, s.p)
         ELSE IF Stuck(pattern, text, s) THEN FALSE ELSE f[Turn(pattern, text, s)]]

LEMMA MatchIsScan ==
  ASSUME NEW pattern, NEW text, Len(pattern) \in Nat, Len(text) \in Nat
  PROVE  \E f : IsScan(pattern, text, f) /\ wildcardMatch(pattern, text) = f[Start]
<1> DEFINE S == Positions(pattern, text)
           ends(s) == s.t = Len(text) \/ Stuck(pattern, text, s)
           rank == [s \in S |-> Rank(pattern, text, s)]
           stop == [s \in S |-> IF ends(s) THEN 1 ELSE 0]
           base == [s \in S |-> IF s.t = Len(text) THEN OnlyStars(pattern, s.p) ELSE FALSE]
           next == [s \in S |-> Turn(pattern, text, s)]
           bound == Count(Len(pattern), Len(text), 0, 0, 0)
<1>1. bound \in Nat
  BY CountFalls
<1>2. rank \in [S -> Nat] /\ \A s \in S : rank[s] <= bound
  BY RankIsBounded
<1>3. Falls(S, rank, stop, next)
  BY TurnFalls DEF Falls
<1>4. \A s \in S : (stop[s] = 1 <=> ends(s)) /\ next[s] = Turn(pattern, text, s)
                   /\ base[s] = IF s.t = Len(text) THEN OnlyStars(pattern, s.p) ELSE FALSE
  OBVIOUS
<1> HIDE DEF rank, stop, base, next, bound
<1>5. PICK f : Walk(S, stop, base, next, f)
  BY <1>1, <1>2, <1>3, WalkIsDefined
<1>6. \A s \in S : (IF stop[s] = 1 THEN base[s] ELSE f[next[s]])
                   = IF s.t = Len(text) THEN OnlyStars(pattern, s.p)
                     ELSE IF Stuck(pattern, text, s) THEN FALSE ELSE f[Turn(pattern, text, s)]
  BY <1>4
<1>7. IsScan(pattern, text, f)
  BY <1>5, <1>6 DEF IsScan, Walk
<1> DEFINE scan == CHOOSE g : IsScan(pattern, text, g)
<1>8. IsScan(pattern, text, scan)
  BY <1>7
<1>9. wildcardMatch(pattern, text) = scan[Start]
  BY DEF wildcardMatch, IsScan
<1> QED
  BY <1>8, <1>9

-----------------------------------------------------------------------------
(* What the loop knows: behind its last star it has taken characters for   *)
(* themselves, and what is left to find starts here, or later behind that  *)
(* star.                                                                   *)

TakenPlainly(pattern, s) ==
  s.star # 0 => /\ s.p - s.star = s.t - s.mark
                /\ \A k \in s.star + 1 .. s.p : pattern[k] # Star

Later(pattern, text, star, mark) ==
  star # 0 /\ \E m \in mark + 1 .. Len(text) : GlobFrom(pattern, text, star, m)

Found(pattern, text, s) ==
  GlobFrom(pattern, text, s.p, s.t) \/ Later(pattern, text, s.star, s.mark)

\* What is found later is found behind the characters taken since.
LEMMA LaterIsBehind ==
  ASSUME NEW pattern, NEW text, Len(pattern) \in Nat, Len(text) \in Nat,
         NEW s \in Positions(pattern, text), TakenPlainly(pattern, s),
         Later(pattern, text, s.star, s.mark)
  PROVE  \E m \in s.t + 1 .. Len(text) : GlobFrom(pattern, text, s.p, m)
<1>1. PICK m \in s.mark + 1 .. Len(text) : GlobFrom(pattern, text, s.star, m)
  BY DEF Later
<1>2. s.star # 0 /\ s.p - s.star = s.t - s.mark /\ \A k \in s.star + 1 .. s.p : pattern[k] # Star
  BY DEF Later, TakenPlainly
<1>3. /\ s.p \in 0 .. Len(pattern) /\ s.t \in 0 .. Len(text) /\ s.star \in 0 .. Len(pattern)
      /\ s.mark \in 0 .. Len(text) /\ s.star <= s.p /\ s.mark <= s.t
  BY PositionFields
<1>4. m \in 0 .. Len(text) /\ s.p \in s.star .. Len(pattern)
  BY <1>3
<1>5. m + (s.p - s.star) \in 0 .. Len(text) /\ GlobFrom(pattern, text, s.p, m + (s.p - s.star))
  BY <1>1, <1>2, <1>3, <1>4, GlobPlain
<1>6. m + (s.p - s.star) \in s.t + 1 .. Len(text)
  BY <1>2, <1>3, <1>5
<1> QED
  BY <1>5, <1>6

LEMMA FoundAtEnd ==
  ASSUME NEW pattern, NEW text, Len(pattern) \in Nat, Len(text) \in Nat,
         NEW s \in Positions(pattern, text), TakenPlainly(pattern, s), s.t = Len(text)
  PROVE  OnlyStars(pattern, s.p) <=> Found(pattern, text, s)
<1>1. s.p \in 0 .. Len(pattern) /\ s.t + 1 .. Len(text) = {}
  BY PositionFields
<1>2. ~Later(pattern, text, s.star, s.mark)
  BY <1>1, LaterIsBehind
<1>3. OnlyStars(pattern, s.p) <=> GlobFrom(pattern, text, s.p, Len(text))
  BY <1>1, GlobStars
<1> QED
  BY <1>2, <1>3 DEF Found

\* Neither character goes on.
LEMMA NothingHere ==
  ASSUME NEW pattern, NEW text, Len(pattern) \in Nat, Len(text) \in Nat,
         NEW s \in Positions(pattern, text), s.t # Len(text),
         ~Here(pattern, s.p, text[s.t + 1]), ~Here(pattern, s.p, Star)
  PROVE  ~GlobFrom(pattern, text, s.p, s.t)
<1>1. s.p \in 0 .. Len(pattern) /\ s.t \in 0 .. Len(text)
  BY PositionFields
<1>2. CASE s.p = Len(pattern)
  BY <1>1, <1>2, GlobEnd
<1>3. CASE s.p # Len(pattern)
  <2>1. s.p < Len(pattern)
    BY <1>1, <1>3
  <2>2. pattern[s.p + 1] # Star /\ text[s.t + 1] # pattern[s.p + 1]
    BY <2>1 DEF Here
  <2> QED
    BY <1>1, <2>1, <2>2, GlobStep
<1> QED
  BY <1>2, <1>3

LEMMA FoundByTurn ==
  ASSUME NEW pattern, NEW text, Len(pattern) \in Nat, Len(text) \in Nat,
         NEW s \in Positions(pattern, text), TakenPlainly(pattern, s), s.t # Len(text),
         ~Stuck(pattern, text, s), text[s.t + 1] # Star
  PROVE  LET u == Turn(pattern, text, s)
         IN  TakenPlainly(pattern, u) /\ (Found(pattern, text, u) <=> Found(pattern, text, s))
<1> DEFINE P == Len(pattern)
           T == Len(text)
           u == Turn(pattern, text, s)
           G(p, t) == GlobFrom(pattern, text, p, t)
<1>1. PICK p \in 0 .. P, t \in 0 .. T, star \in 0 .. P, mark \in 0 .. T :
        /\ s.p = p /\ s.t = t /\ s.star = star /\ s.mark = mark
        /\ star <= p /\ mark <= t /\ t < T
  BY PositionFields
<1>2. \A a, b, c, d : LET v == Place(a, b, c, d)
                      IN  v.p = a /\ v.t = b /\ v.star = c /\ v.mark = d
  BY DEF Place
<1>3. Found(pattern, text, s) <=> G(p, t) \/ Later(pattern, text, star, mark)
  BY <1>1 DEF Found
<1>4. \A a, b, c, d : Found(pattern, text, Place(a, b, c, d)) <=>
                        G(a, b) \/ Later(pattern, text, c, d)
  BY <1>2 DEF Found
<1>5. star # 0 => p - star = t - mark /\ \A k \in star + 1 .. p : pattern[k] # Star
  BY <1>1 DEF TakenPlainly
<1>6. \A a, b, c, d : TakenPlainly(pattern, Place(a, b, c, d)) <=>
        (c # 0 => a - c = b - d /\ \A k \in c + 1 .. a : pattern[k] # Star)
  BY <1>2 DEF TakenPlainly
<1>7. CASE Here(pattern, p, text[t + 1])
  <2>1. u = Place(p + 1, t + 1, star, mark)
    BY <1>1, <1>7, TurnGoes
  <2>2. p < P /\ pattern[p + 1] = text[t + 1] /\ pattern[p + 1] # Star
    BY <1>1, <1>7 DEF Here
  <2>3. G(p, t) <=> G(p + 1, t + 1)
    BY <1>1, <2>2, GlobStep
  <2>4. \A k \in star + 1 .. p + 1 : k \in star + 1 .. p \/ k = p + 1
    BY <1>1
  <2>5. p - star = t - mark => (p + 1) - star = (t + 1) - mark
    BY <1>1
  <2>6. TakenPlainly(pattern, u)
    BY <1>5, <1>6, <2>1, <2>2, <2>4, <2>5
  <2> HIDE DEF G
  <2> QED
    BY <1>3, <1>4, <2>1, <2>3, <2>6
<1>8. CASE ~Here(pattern, p, text[t + 1]) /\ Here(pattern, p, Star)
  <2>1. u = Place(p + 1, t, p + 1, t)
    BY <1>1, <1>8, TurnGoes
  <2>2. p < P /\ pattern[p + 1] = Star /\ p + 1 # 0
    BY <1>8 DEF Here
  <2>3. \A n \in 0 .. T : G(p, n) <=> \E m \in n .. T : G(p + 1, m)
    BY <2>2, GlobStep
  <2>4. \A m : m \in t .. T <=> m = t \/ m \in t + 1 .. T
    BY <1>1
  <2>5. G(p, t) <=> G(p + 1, t) \/ Later(pattern, text, p + 1, t)
    BY <1>1, <2>2, <2>3, <2>4 DEF Later
  <2>6. ASSUME Later(pattern, text, star, mark) PROVE G(p, t)
    <3>1. PICK n \in t + 1 .. T : G(p, n)
      BY <1>1, <2>6, LaterIsBehind
    <3>2. PICK m \in n .. T : G(p + 1, m)
      BY <1>1, <2>3, <3>1
    <3>3. m \in t .. T
      BY <1>1, <3>1, <3>2
    <3> QED
      BY <1>1, <2>3, <3>2, <3>3
  <2>7. (p + 1) - (p + 1) = t - t /\ (p + 1) + 1 .. p + 1 = {}
    BY <1>1
  <2>8. TakenPlainly(pattern, u)
    BY <1>6, <2>1, <2>7
  <2> HIDE DEF G
  <2> QED
    BY <1>3, <1>4, <2>1, <2>5, <2>6, <2>8
<1>9. CASE ~Here(pattern, p, text[t + 1]) /\ ~Here(pattern, p, Star)
  <2>1. u = Place(star, mark + 1, star, mark + 1) /\ star # 0
    BY <1>1, <1>9, TurnGoes
  <2>2. ~G(p, t)
    BY <1>1, <1>9, NothingHere
  <2>3. \A m : m \in mark + 1 .. T <=> m = mark + 1 \/ m \in (mark + 1) + 1 .. T
    BY <1>1
  <2>4. Later(pattern, text, star, mark)
          <=> G(star, mark + 1) \/ Later(pattern, text, star, mark + 1)
    BY <2>1, <2>3 DEF Later
  <2>5. star - star = (mark + 1) - (mark + 1) /\ star + 1 .. star = {}
    BY <1>1
  <2>6. TakenPlainly(pattern, u)
    BY <1>6, <2>1, <2>5
  <2> HIDE DEF G
  <2> QED
    BY <1>3, <1>4, <2>1, <2>2, <2>4, <2>6
<1> QED
  BY <1>7, <1>8, <1>9

LEMMA NotFoundStuck ==
  ASSUME NEW pattern, NEW text, Len(pattern) \in Nat, Len(text) \in Nat,
         NEW s \in Positions(pattern, text), s.t # Len(text), Stuck(pattern, text, s)
  PROVE  ~Found(pattern, text, s)
BY NothingHere DEF Stuck, Found, Later

LEMMA ScanFinds ==
  ASSUME NEW pattern, NEW text, Len(pattern) \in Nat, Len(text) \in Nat,
         \A k \in 1 .. Len(text) : text[k] # Star, NEW f, IsScan(pattern, text, f),
         NEW s \in Positions(pattern, text), TakenPlainly(pattern, s)
  PROVE  f[s] <=> Found(pattern, text, s)
<1> DEFINE S == Positions(pattern, text)
           Wrong(v) == TakenPlainly(pattern, v) /\ ~(f[v] <=> Found(pattern, text, v))
           Bad == {n \in Nat : \E v \in S : Rank(pattern, text, v) = n /\ Wrong(v)}
<1>1. SUFFICES ASSUME Bad # {} PROVE FALSE
  <2>1. Rank(pattern, text, s) \in Nat
    BY RankIsBounded
  <2>2. ~Wrong(s)
    BY <1>1, <2>1
  <2> QED
    BY <2>2
<1>2. PICK n \in Bad : \A m \in Bad : n <= m
  <2>1. Bad \subseteq Nat
    OBVIOUS
  <2> QED
    BY <1>1, <2>1, LeastNatural
<1>3. PICK v \in S : Rank(pattern, text, v) = n /\ Wrong(v)
  BY <1>2
<1>4. f[v] = IF v.t = Len(text) THEN OnlyStars(pattern, v.p)
             ELSE IF Stuck(pattern, text, v) THEN FALSE ELSE f[Turn(pattern, text, v)]
  BY <1>3 DEF IsScan
<1>5. CASE v.t = Len(text)
  <2>1. f[v] = OnlyStars(pattern, v.p)
    BY <1>4, <1>5
  <2>2. OnlyStars(pattern, v.p) <=> Found(pattern, text, v)
    BY <1>3, <1>5, FoundAtEnd
  <2> QED
    BY <1>3, <2>1, <2>2, Zenon
<1>6. CASE v.t # Len(text) /\ Stuck(pattern, text, v)
  <2>1. f[v] = FALSE
    BY <1>4, <1>6
  <2>2. ~Found(pattern, text, v)
    BY <1>3, <1>6, NotFoundStuck
  <2> QED
    BY <1>3, <2>1, <2>2, Zenon
<1>7. CASE v.t # Len(text) /\ ~Stuck(pattern, text, v)
  <2> DEFINE u == Turn(pattern, text, v)
  <2>1. u \in S /\ Rank(pattern, text, u) < Rank(pattern, text, v)
    BY <1>3, <1>7, TurnFalls
  <2>2. v.t + 1 \in 1 .. Len(text)
    <3>1. v.t \in 0 .. Len(text)
      BY <1>3, PositionFields
    <3> QED
      BY <1>7, <3>1
  <2>3. TakenPlainly(pattern, u) /\ (Found(pattern, text, u) <=> Found(pattern, text, v))
    BY <1>3, <1>7, <2>2, FoundByTurn
  <2>4. f[v] = f[u]
    BY <1>4, <1>7
  <2> HIDE DEF u
  <2>5. Wrong(u)
    BY <1>3, <2>3, <2>4, Zenon
  <2>6. Rank(pattern, text, u) \in Nat /\ Rank(pattern, text, v) \in Nat
    BY <1>3, <2>1, RankIsBounded
  <2>7. Rank(pattern, text, u) \in Bad /\ ~(n <= Rank(pattern, text, u))
    BY <1>3, <2>1, <2>5, <2>6
  <2> QED
    BY <1>2, <2>7
<1> QED
  BY <1>5, <1>6, <1>7

\* On a text without a star the matcher finds what the glob describes.
LEMMA MatchIsGlob ==
  ASSUME NEW pattern, NEW text, Len(pattern) \in Nat, Len(text) \in Nat,
         \A k \in 1 .. Len(text) : text[k] # Star
  PROVE  wildcardMatch(pattern, text) <=> Glob(pattern, text)
<1>1. PICK f : IsScan(pattern, text, f) /\ wildcardMatch(pattern, text) = f[Start]
  BY MatchIsScan
<1>2. Start \in Positions(pattern, text) /\ TakenPlainly(pattern, Start)
      /\ (Found(pattern, text, Start) <=> GlobFrom(pattern, text, 0, 0))
  BY DEF Start, Place, Positions, TakenPlainly, Found, Later
<1>3. f[Start] <=> Found(pattern, text, Start)
  BY <1>1, <1>2, ScanFinds
<1> QED
  BY <1>1, <1>2, <1>3, GlobIsGlobFrom, Zenon

-----------------------------------------------------------------------------
(* The filter. *)

Tests == [id : Seq(STRING), kind : STRING]

FInv == declared \in Seq(Tests) /\ request.fbt \in Seq(STRING)

LEMMA FInit == IsolatedInit => FInv
<1> SUFFICES ASSUME IsolatedInit PROVE FInv
  OBVIOUS
<1>1. declared \in Seq(Tests)
  BY TestsAssumption, Zenon DEF IsolatedInit, Tests
<1>2. request.fbt \in Patterns
  BY DEF IsolatedInit
<1>3. request.fbt \in Seq(STRING)
  BY <1>2, TestsAssumption, Zenon
<1> QED
  BY <1>1, <1>3 DEF FInv

LEMMA FNext == FInv /\ [IsolatedNext]_ivars => FInv'
<1> SUFFICES ASSUME FInv, [IsolatedNext]_ivars PROVE FInv'
  OBVIOUS
<1>1. CASE EditToml
  <2>1. PICK tests \in Additions : declared' = declared \o tests
    BY <1>1 DEF EditToml
  <2>2. tests \in Seq(Tests)
    BY TestsAssumption, Zenon DEF Tests
  <2>3. declared' \in Seq(Tests)
    <3> HIDE DEF Tests
    <3> QED
      BY <2>1, <2>2 DEF FInv
  <2>4. request' = request
    BY <1>1 DEF EditToml
  <2> QED
    BY <2>3, <2>4 DEF FInv
<1>2. CASE DriverStep \/ ProgramStep \/ Tick \/ UNCHANGED ivars
  <2>1. declared' = declared /\ request' = request
    BY <1>2 DEF DriverStep, ReadAndSelect, ReadFails, NextTest, Rest, Spawn, SpawnFails, Exited, TimesOut,
                Terminate, Summary, Collect, ProgramStep, ProgramEnds, TestEnds, Tick, ivars
  <2> QED
    BY <2>1 DEF FInv
<1> QED
  BY <1>1, <1>2 DEF IsolatedNext

LEMMA FInvImpliesGlob == FInv => FilterIsGlob
<1> SUFFICES ASSUME FInv PROVE FilterIsGlob
  OBVIOUS
<1>1. \A i \in DOMAIN declared : declared[i].id \in Seq(STRING)
  <2>1. \A i \in DOMAIN declared : declared[i] \in Tests
    <3> HIDE DEF Tests
    <3> QED
      BY DEF FInv
  <2> QED
    BY <2>1, Zenon DEF Tests
<1>2. ASSUME NEW pattern \in Seq(STRING), NEW text \in Seq(STRING), \A n \in DOMAIN text : text[n] # Star
      PROVE  wildcardMatch(pattern, text) <=> Glob(pattern, text)
  <2>1. Len(pattern) \in Nat /\ Len(text) \in Nat /\ \A n \in 1 .. Len(text) : text[n] # Star
    BY <1>2
  <2> QED
    BY <2>1, MatchIsGlob, Zenon
<1>3. ASSUME NEW pattern \in Seq(STRING), NEW text \in Seq(STRING),
             \A n \in DOMAIN text : text[n] # Star, Plain(pattern)
      PROVE  wildcardMatch(pattern, text) <=> text = pattern
  <2>1. \A n \in DOMAIN pattern : pattern[n] # Star
    BY <1>3 DEF Plain
  <2>2. Glob(pattern, text) <=> text = pattern
    BY <2>1, GlobOfPlain, Zenon
  <2> QED
    BY <1>2, <1>3, <2>2, Zenon
<1>4. request.fbt \in Seq(STRING)
  BY DEF FInv
<1>5. ASSUME NEW i \in DOMAIN declared, \A n \in DOMAIN declared[i].id : declared[i].id[n] # Star
      PROVE  /\ wildcardMatch(request.fbt, declared[i].id) <=> Glob(request.fbt, declared[i].id)
             /\ \A k \in DOMAIN declared : Plain(declared[k].id) =>
                  (wildcardMatch(declared[k].id, declared[i].id)
                     <=> declared[i].id = declared[k].id)
  BY <1>1, <1>2, <1>3, <1>4, <1>5, Zenon
<1> DEFINE tests == {declared[i] : i \in DOMAIN declared}
           noStar(id) == \A n \in DOMAIN id : id[n] # Star
<1>6. ASSUME NEW t \in tests, noStar(t.id)
      PROVE  /\ wildcardMatch(request.fbt, t.id) <=> Glob(request.fbt, t.id)
             /\ \A u \in tests : Plain(u.id) => (wildcardMatch(u.id, t.id) <=> t.id = u.id)
  <2>1. PICK i \in DOMAIN declared : t = declared[i]
    BY <1>6, Zenon
  <2>2. \A u \in tests : \E k \in DOMAIN declared : u = declared[k]
    BY Zenon
  <2>3. /\ wildcardMatch(request.fbt, t.id) <=> Glob(request.fbt, t.id)
        /\ \A k \in DOMAIN declared : Plain(declared[k].id) =>
             (wildcardMatch(declared[k].id, t.id) <=> t.id = declared[k].id)
    BY <1>5, <1>6, <2>1, Zenon
  <2>4. ASSUME NEW u \in tests, Plain(u.id) PROVE wildcardMatch(u.id, t.id) <=> t.id = u.id
    <3>1. PICK k \in DOMAIN declared : u = declared[k]
      BY <2>2, <2>4, Zenon
    <3> QED
      BY <2>3, <2>4, <3>1, Zenon
  <2> QED
    BY <2>3, <2>4, Zenon
<1> QED
  BY <1>6, Zenon DEF FilterIsGlob

\* The filter of a run selects the tests its glob describes, and the id of a test
\* nothing but that test (wildcardMatch in Commands.cpp and in the generated main),
\* as long as the ids themselves have no star.
THEOREM FilterSelects == IsolatedSpec => []FilterIsGlob
<1>1. FInv /\ [IsolatedNext]_ivars => FInv'
  BY FNext
<1> QED
  BY FInit, FInvImpliesGlob, <1>1, PTL DEF IsolatedSpec
=============================================================================
