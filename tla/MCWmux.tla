------------------------------- MODULE MCWmux -------------------------------
(* Two threads that run callbacks, two waits on the human.                  *)
EXTENDS Wmux, TLC

CONSTANTS h1, h2, sweeper, r1, w1, w2

MCHooks == {h1, h2}
MCWaits == {w1, w2}
=============================================================================
