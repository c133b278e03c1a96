----------------------------- MODULE MCReporter -----------------------------
(***************************************************************************)
(* The instance of Reporter that TLC checks: one approval, one prompt.     *)
(***************************************************************************)
EXTENDS Reporter

CONSTANTS loop, g1, p1

MCApprovals == {g1}
MCPrompts   == {p1}
=============================================================================
