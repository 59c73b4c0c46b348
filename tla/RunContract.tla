----------------------------- MODULE RunContract -----------------------------
(***************************************************************************)
(* What the rest of Hades may rely on of one benchmark run, whatever the   *)
(* fixture and the machine do (SequentialRunner.h, run): the fixture is    *)
(* started once, measured for a number of slices that is bounded when the  *)
(* measuring begins, torn down once, and only then a single verdict is     *)
(* given.                                                                  *)
(***************************************************************************)
EXTENDS Naturals

VARIABLES
  stage,   \* "fresh", "live", "measuring", "down" or "reported"
  budget,  \* slices the run may still measure
  verdict  \* how the run was reported

contract == <<stage, budget, verdict>>

Verdicts == {"passed", "failed"}

ContractInit == stage = "fresh" /\ budget = 0 /\ verdict = "none"

Start == stage = "fresh" /\ stage' = "live" /\ UNCHANGED <<budget, verdict>>

Calibrated ==
  /\ stage = "live" /\ stage' = "measuring"
  /\ budget' \in Nat \ {0}
  /\ UNCHANGED verdict

Slice ==
  /\ stage = "measuring"
  /\ budget' \in Nat /\ budget' < budget
  /\ UNCHANGED <<stage, verdict>>

TearDown ==
  /\ stage = "measuring"
  /\ stage' = "down"
  /\ UNCHANGED <<budget, verdict>>

\* A run that measures nothing is torn down and reported at once.
Report ==
  /\ stage \in {"live", "down"}
  /\ stage' = "reported"
  /\ verdict' \in Verdicts
  /\ UNCHANGED budget

ContractNext == Start \/ Calibrated \/ Slice \/ TearDown \/ Report

ContractSpec == ContractInit /\ [][ContractNext]_contract
=============================================================================
