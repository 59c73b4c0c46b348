---------------------------- MODULE WelfordState ----------------------------
(***************************************************************************)
(* WelfordState of StatsAccumulator.h, which the slice statistics and the  *)
(* regression history both keep their samples in.  Its meanV and m2 are    *)
(* represented by the count, the sum and the sum of squares that determine *)
(* them, so that a sample is a natural number and comparing with the       *)
(* standard deviation is comparing products of integers.                   *)
(***************************************************************************)
EXTENDS Integers

WelfordStates == [count : Nat, sum : Nat, sumSq : Nat]

EmptyWelford == [count |-> 0, sum |-> 0, sumSq |-> 0]

Update(w, t) ==
  [count |-> w.count + 1, sum |-> w.sum + t, sumSq |-> w.sumSq + t * t]

\* m2, the sum of squared deviations from the mean, times the count.
Scatter(w) == w.count * w.sumSq - w.sum * w.sum

\* stddev() > 0: two samples that differ.
HasSpread(w) == w.count >= 2 /\ Scatter(w) > 0

\* stddev() / meanV <= pct / 100, squared and cleared of its denominators.  Fewer than two
\* samples, or a zero mean, have a zero CV: both sides are then zero.
CvWithin(w, pct) ==
  10000 * w.count * Scatter(w) <= pct * pct * (w.count - 1) * w.sum * w.sum

\* |t - meanV| > k * stddev(), squared and cleared of its denominators.
OutOfRange(w, t, k) ==
  LET delta == w.count * t - w.sum
  IN  delta * delta * (w.count - 1) > k * k * w.count * Scatter(w)
=============================================================================
