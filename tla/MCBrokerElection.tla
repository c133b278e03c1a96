-------------------------- MODULE MCBrokerElection --------------------------
(* Two supervisors, in two processes or one after the other in one.         *)
EXTENDS BrokerElection, TLC

CONSTANTS s1, s2

MCSupervisors == {s1, s2}
=============================================================================
