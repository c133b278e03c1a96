-------------------------- MODULE MCApprovalSwitch --------------------------
(* Small instances of the approval switch: two approvals, so that one can   *)
(* own stdin while the other waits for it.                                  *)
EXTENDS ApprovalSwitch, TLC

CONSTANTS g1, g2

BothGates  == {g1, g2}
OneGate    == {g1}
NoGates    == {}
GateSymmetry == Permutations({g1, g2})

Reliable   == {"acked"}
Nobody     == {"noclient"}

=============================================================================
