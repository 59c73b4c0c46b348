-------------------------- MODULE MCSettlingMachine --------------------------
(***************************************************************************)
(* A machine of three speeds, each about 1.4 times slower than the one     *)
(* before, and an interrupt that costs five slices' time.                  *)
(***************************************************************************)
EXTENDS SettlingMachine

MCSpeeds == <<{10, 11}, {15, 16}, {22}>>
MCWallTimes == {10, 11, 15, 16, 22, 50}
MCTiers == {[minSlices |-> 3, maxSlices |-> 6]}
MCConfigKnobs == {[cvPct |-> 0, minSlices |-> 0, maxSlices |-> 0,
                   consecutiveDiscardCap |-> 0, totalDiscardCap |-> 0]}
=============================================================================
