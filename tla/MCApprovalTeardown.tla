-------------------------- MODULE MCApprovalTeardown -------------------------
(* Small instances of the teardown: two approvals, one at a terminal or     *)
(* both, and uninstall at any moment.                                       *)
EXTENDS ApprovalTeardown, TLC

CONSTANTS g1, g2

BothGates  == {g1, g2}
OneGate    == {g1}
NoGates    == {}
GateSymmetry == Permutations({g1, g2})

Reliable   == {"acked"}
Nobody     == {"noclient"}

=============================================================================
