------------------------ MODULE MCStatsAccumulator ------------------------
(***************************************************************************)
(* Small instances of StatsAccumulator: a window of three samples instead  *)
(* of eight and caps small enough for every counter to reach them.         *)
(***************************************************************************)
EXTENDS StatsAccumulator

\* 13 is an outlier of 10 but level with 15; 16 is an outlier of 13.
MCWallTimes == {10, 13, 15, 16}

MCTiers == {[minSlices |-> 2, maxSlices |-> 4]}

NoOverride == [cvPct |-> 0, minSlices |-> 0, maxSlices |-> 0,
               consecutiveDiscardCap |-> 0, totalDiscardCap |-> 0]

\* The derived caps, and a run that may not discard more than two slices in a row.
MCConfigKnobs == {NoOverride, [NoOverride EXCEPT !.consecutiveDiscardCap = 2]}
=============================================================================
