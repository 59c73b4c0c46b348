------------------------- MODULE MCSequentialRunner -------------------------
(***************************************************************************)
(* Runs of a fixture whose output may differ from slice to slice, with a   *)
(* two-sample window and caps of two or three.                             *)
(***************************************************************************)
EXTENDS SequentialRunner

CONSTANTS b1, b2

MCWallTimes == {2, 3}
MCTiers == {[minSlices |-> 2, maxSlices |-> 3]}
NoOverride == [cvPct |-> 0, minSlices |-> 0, maxSlices |-> 0,
               consecutiveDiscardCap |-> 0, totalDiscardCap |-> 0]
LongerRun == [NoOverride EXCEPT !.maxSlices = 4]
MCConfigKnobs == {NoOverride, LongerRun}

Performance(warmups, count, configKnobs) ==
  [kind |-> "Performance", warmupCount |-> warmups, iterations |-> count,
   knobs |-> configKnobs]

MCConfigs ==
  {Performance(1, 0, NoOverride), Performance(2, 2, LongerRun),
   [Performance(0, 1, NoOverride) EXCEPT !.kind = "Correctness"]}

\* One execute on a clean fixture is steady; more work since the reset makes it flaky.
MCProduces == 0 :> {{b1}} @@ 1 :> {{b1}} @@ 2 :> {{b1}, {b2}, {b1, b2}}
=============================================================================
