----------------------------- MODULE MCSteerPath -----------------------------
(***************************************************************************)
(* The instance of SteerPath that TLC checks: two messages, one of them of *)
(* an uncertain author whose answers may be lost.                          *)
(***************************************************************************)
EXTENDS SteerPath

CONSTANTS m1, m2

MCMessages == {m1, m2}
MCEvents   == {1}
MCUnknown  == {m2}
MCShaky    == {m2}
=============================================================================
